---- MODULE Spec2Model ----
(***************************************************************************)
(* repo-syncer: the fork reconciliation engine.                            *)
(*                                                                         *)
(* Workers (src/src/sync.rs) run sync / clone / archive / delete against   *)
(* an external git + gh, and report through one mpsc channel to the single *)
(* consumer loop (src/src/main.rs run_app, src/src/handlers.rs,            *)
(* src/src/app.rs).  Job indices are 0-based as in the source; TLA+        *)
(* sequences are 1-based, so forks[idx + 1] is the source's forks[idx].    *)
(***************************************************************************)
EXTENDS Integers, Sequences, FiniteSets, TLC

\* ---------------------------------------------------------------- bounds
NumForks == 2
MaxWorkers == 2
MaxBehind == 1
MaxChan == 2
MaxFaults == 1
MaxQuery == 2

ForkIds == 1..NumForks
WorkerIds == 1..MaxWorkers

\* ------------------------------------------------------------- SyncStatus
NoCount == 0 - 1
NoIdx == 0 - 1
Unlimited == 0 - 1

St(kind) == [k |-> kind, n |-> NoCount, r |-> ""]
Pending == St("Pending")
Checking == St("Checking")
Cloning == St("Cloning")
Stashing == St("Stashing")
Fetching == St("Fetching")
Syncing == St("Syncing")
Restoring == St("Restoring")
Archiving == St("Archiving")
Deleting == St("Deleting")
Synced(c) == [k |-> "Synced", n |-> c, r |-> ""]
Skipped(reason) == [k |-> "Skipped", n |-> NoCount, r |-> reason]
Failed(reason) == [k |-> "Failed", n |-> NoCount, r |-> reason]
NoStatus == St("")

IsTerminal(st) == st.k \in {"Synced", "Skipped", "Failed"}

\* ------------------------------------------------------------ SyncResult
\* w and fork are not part of the message: they record which worker sent it
\* and which fork the job snapshot was taken from.
StatusUpdate(w, job, st) ==
    [t |-> "StatusUpdate", idx |-> job.idx, st |-> st, w |-> w, fork |-> job.fork,
     list |-> <<>>]
ForkCloned(w, job) ==
    [t |-> "ForkCloned", idx |-> job.idx, st |-> NoStatus, w |-> w, fork |-> job.fork,
     list |-> <<>>]
ForkArchived(w, job) ==
    [t |-> "ForkArchived", idx |-> job.idx, st |-> NoStatus, w |-> w, fork |-> job.fork,
     list |-> <<>>]
ForkDeleted(w, job) ==
    [t |-> "ForkDeleted", idx |-> job.idx, st |-> NoStatus, w |-> w, fork |-> job.fork,
     list |-> <<>>]
ActionableError(w, job) ==
    [t |-> "ActionableError", idx |-> NoIdx, st |-> NoStatus, w |-> w, fork |-> job.fork,
     list |-> <<>>]
\* ForksRefreshed(forks) carries the list it fetched; RefreshFailed(msg)
ForksRefreshed(w, forks) ==
    [t |-> "ForksRefreshed", idx |-> NoIdx, st |-> NoStatus, w |-> w, fork |-> 0,
     list |-> forks]
RefreshFailed(w) ==
    [t |-> "RefreshFailed", idx |-> NoIdx, st |-> NoStatus, w |-> w, fork |-> 0,
     list |-> <<>>]

\* ------------------------------------------------------- text of messages
IsSpace(c) == c \in {" ", "\n", "\t", "\r"}

RECURSIVE TrimStart(_)
TrimStart(s) ==
    IF Len(s) = 0 THEN s
    ELSE IF IsSpace(SubSeq(s, 1, 1)) THEN TrimStart(SubSeq(s, 2, Len(s)))
    ELSE s

RECURSIVE TrimEnd(_)
TrimEnd(s) ==
    IF Len(s) = 0 THEN s
    ELSE IF IsSpace(SubSeq(s, Len(s), Len(s))) THEN TrimEnd(SubSeq(s, 1, Len(s) - 1))
    ELSE s

Trim(s) == TrimEnd(TrimStart(s))

RECURSIVE LineEnd(_, _)
LineEnd(s, i) ==
    IF i > Len(s) THEN Len(s)
    ELSE IF SubSeq(s, i, i) = "\n" THEN i - 1
    ELSE LineEnd(s, i + 1)

\* str::lines().next(): the text before the first line feed, without a
\* trailing carriage return
FirstLine(s) ==
    LET e == LineEnd(s, 1)
        l == SubSeq(s, 1, e)
    IN IF Len(l) > 0 /\ SubSeq(l, Len(l), Len(l)) = "\r"
       THEN SubSeq(l, 1, Len(l) - 1) ELSE l

TruncLimit == 30
TruncKeep == 27

truncate_error(err) ==
    LET t == Trim(err)
        cleaned == IF Len(t) = 0 THEN err ELSE FirstLine(t)
    IN IF Len(cleaned) > TruncLimit
       THEN SubSeq(cleaned, 1, TruncKeep) \o "..."
       ELSE cleaned

Contains(s, sub) ==
    \E i \in 1..(Len(s) - Len(sub) + 1) : SubSeq(s, i, i + Len(sub) - 1) = sub

\* stderr texts the external commands are run against
MkdirErr == "Permission denied (os error 13)"
LongErr == "failed to run git: fatal: unable to access remote\nexit 128"
ScopeErr == "HTTP 403: Must have admin rights to Repository.\nThis API operation needs the \"delete_repo\" scope."
HalfScopeErr == "HTTP 403: token is missing a required scope"
UpToDateErr == "can't sync: already up-to-date"
SpawnErr == "No such file or directory (os error 2)"

\* what gh writes to stderr when it exits non-zero
SyncErrs == {UpToDateErr, LongErr}
DeleteErrs == {ScopeErr, HalfScopeErr}
OtherErrs == {LongErr}

\* ------------------------------------------------------------------ state
VARIABLES
    app,      \* the consumer's App
    chan,     \* the mpsc channel: events sent and not yet received
    workers,  \* the spawned threads: position and locals of each
    disk,     \* the local clone of each fork
    remote,   \* the GitHub side of each fork
    budget,   \* how many more commands may fail (a negative value: any number)
    observe,  \* whether log and cmds are being recorded
    log,      \* per worker, every event it has sent, in order
    cmds,     \* per worker, every external command / filesystem call it ran
    cache     \* the forks table of the metadata cache, and the last call made on it

vars == <<app, chan, workers, disk, remote, budget, observe, log, cmds, cache>>

DefaultBranch == "main"
FeatureBranch == "feature-x"

NoJob == [idx |-> NoIdx, fork |-> 0]
Detached == "HEAD"
Branches == {DefaultBranch, FeatureBranch, Detached}

NoDisk == [exists |-> FALSE, branch |-> DefaultBranch, dirty |-> FALSE,
           stash |-> <<>>, ahead |-> FALSE]

IdleWorker ==
    [kind |-> "none", pc |-> "done", dry |-> FALSE, job |-> NoJob, jobs |-> <<>>,
     batch |-> <<>>,
     is_dirty |-> FALSE, original_branch |-> "", stashed |-> FALSE,
     commits_behind |-> NoCount, pre |-> NoDisk]

\* ------------------------------------------------- the external commands
\* What git does to a clone.  A command that exits non-zero changes nothing.

\* git stash push: "ok" saves the changes; "nothing" is git's exit 0 with
\* "No local changes to save" (a tree whose only changes are untracked files)
StashPushOutcomes(d) ==
    IF ~d.exists THEN {"fail"}
    ELSE IF d.dirty THEN {"ok", "nothing", "fail"}
    ELSE {"nothing", "fail"}

StashPush(d, out) ==
    IF out = "ok" THEN [d EXCEPT !.stash = <<"auto">> \o @, !.dirty = FALSE] ELSE d

\* git stash pop: pops the top entry, whoever pushed it
StashPopOutcomes(d) ==
    IF d.exists /\ d.stash # <<>> THEN {"ok", "fail"} ELSE {"fail"}

StashPop(d, out) ==
    IF out = "ok" THEN [d EXCEPT !.stash = Tail(@), !.dirty = TRUE] ELSE d

\* git checkout <name>; "HEAD" names the current commit and moves nothing
GitOutcomes(d) == IF d.exists THEN {"ok", "fail"} ELSE {"fail"}

Checkout(d, name, out) ==
    IF out = "ok" /\ name # Detached THEN [d EXCEPT !.branch = name] ELSE d

\* git reset --hard origin/<default>
ResetHard(d, out) ==
    IF out = "ok" THEN [d EXCEPT !.dirty = FALSE, !.ahead = FALSE] ELSE d

\* gh repo sync / archive / delete / clone against the GitHub side
GhSyncOutcomes(r) == IF r.state = "active" THEN {"ok", "fail", "err"} ELSE {"fail", "err"}
GhArchiveOutcomes(r) == IF r.state = "active" THEN {"ok", "fail", "err"} ELSE {"fail", "err"}
GhDeleteOutcomes(r) == IF r.state # "deleted" THEN {"ok", "fail", "err"} ELSE {"fail", "err"}
GhCloneOutcomes(r, d) ==
    IF r.state # "deleted" /\ ~d.exists THEN {"ok", "fail", "err"} ELSE {"fail", "err"}

FreshClone == [exists |-> TRUE, branch |-> DefaultBranch, dirty |-> FALSE,
               stash |-> <<>>, ahead |-> FALSE]

BehindOutcomes == {NoCount} \cup (0..MaxBehind)

\* --------------------------------------------------------- worker steps
\* a command as recorded in cmds: err is the stderr of a gh repo delete or
\* gh repo sync that exited non-zero, stdout_empty whether it printed nothing
\* to stdout, n the count a compare lookup printed
Cmd(job, name, res) ==
    [job |-> job.idx, c |-> name, res |-> res, err |-> "", stdout_empty |-> TRUE,
     n |-> NoCount]
CmdErr(job, name, res, err) ==
    [Cmd(job, name, res) EXCEPT !.err = IF res = "fail" THEN err ELSE ""]
CmdOutput(job, name, res, err, stdout_empty) ==
    [CmdErr(job, name, res, err) EXCEPT
        !.stdout_empty = IF res = "fail" THEN stdout_empty ELSE TRUE]
CmdCount(job, name, c) ==
    [Cmd(job, name, IF c = NoCount THEN "fail" ELSE "ok") EXCEPT !.n = c]

\* a channel that hands over the newest event first
WStepNewestFirst(w, out, wr2, evs, cs, d2, r2) ==
    /\ Len(chan) + Len(evs) <= MaxChan
    /\ budget' = IF out # "ok" /\ budget > 0 THEN budget - 1 ELSE budget
    /\ workers' = [workers EXCEPT ![w] = wr2]
    /\ chan' = evs \o chan
    /\ log' = IF observe THEN [log EXCEPT ![w] = @ \o evs] ELSE log
    /\ cmds' = IF observe THEN [cmds EXCEPT ![w] = @ \o cs] ELSE cmds
    /\ disk' = [disk EXCEPT ![workers[w].job.fork] = d2]
    /\ remote' = [remote EXCEPT ![workers[w].job.fork] = r2]
    /\ UNCHANGED <<app, observe, cache>>

\* one step of worker w: its new locals, the events it sends (tx.send), the
\* commands it ran, and what they did to its fork's clone and GitHub side
WStep(w, out, wr2, evs, cs, d2, r2) ==
    /\ Len(chan) + Len(evs) <= MaxChan
    /\ budget' = IF out # "ok" /\ budget > 0 THEN budget - 1 ELSE budget
    /\ workers' = [workers EXCEPT ![w] = wr2]
    /\ chan' = chan \o evs
    /\ log' = IF observe THEN [log EXCEPT ![w] = @ \o evs] ELSE log
    /\ cmds' = IF observe THEN [cmds EXCEPT ![w] = @ \o cs] ELSE cmds
    /\ disk' = [disk EXCEPT ![workers[w].job.fork] = d2]
    /\ remote' = [remote EXCEPT ![workers[w].job.fork] = r2]
    /\ UNCHANGED <<app, observe, cache>>

\* the outcomes a command may still have: once the budget of failures is
\* spent, a command that can succeed does
Allowed(outcomes) ==
    IF budget = 0 /\ "ok" \in outcomes THEN {"ok"} ELSE outcomes

\* a job's end that leaves the loop, whatever is left of the list
EndJobLeavingLoop(wr) ==
    [wr EXCEPT !.pc = "done",
               !.is_dirty = FALSE, !.original_branch = "", !.stashed = FALSE,
               !.commits_behind = NoCount]

\* the function returns: the thread goes on to the next job, or ends
EndJob(wr) ==
    [wr EXCEPT !.pc = IF wr.jobs = <<>> THEN "done" ELSE "next",
               !.is_dirty = FALSE, !.original_branch = "", !.stashed = FALSE,
               !.commits_behind = NoCount]

At(w, kind, pc) == workers[w].kind = kind /\ workers[w].pc = pc /\ ~app.quit /\ ~app.panicked

Me(w) == workers[w]
MyDisk(w) == disk[workers[w].job.fork]
MyRemote(w) == remote[workers[w].job.fork]
Upd(w, st) == StatusUpdate(w, workers[w].job, st)

\* ------------------------------------------------------ sync_single_fork
\* a worker that takes its jobs from the back of the list
TakeLastJob(jobs) == [job |-> jobs[Len(jobs)], rest |-> SubSeq(jobs, 1, Len(jobs) - 1)]

\* for (idx, fork) in forks_to_sync: the iterator yields the front of the list
TakeJob(jobs) == [job |-> Head(jobs), rest |-> Tail(jobs)]

\* for (idx, fork) in forks_to_sync { sync_single_fork(..) }: the next job is
\* taken and Checking is sent
SyncStart(w) ==
    /\ At(w, "sync", "next")
    /\ Len(chan) < MaxChan
    /\ LET job == TakeJob(Me(w).jobs).job
           ev == StatusUpdate(w, job, Checking)
       IN /\ workers' = [workers EXCEPT ![w] =
                 [@ EXCEPT !.job = job, !.jobs = TakeJob(Me(w).jobs).rest,
                           !.pre = IF observe THEN disk[job.fork] ELSE NoDisk,
                           !.pc = IF Me(w).dry THEN "dry" ELSE "exists"]]
          /\ chan' = Append(chan, ev)
          /\ log' = IF observe THEN [log EXCEPT ![w] = Append(@, ev)] ELSE log
    /\ UNCHANGED <<app, disk, remote, budget, observe, cache, cmds>>

\* dry run: sleep, then Synced(None)
SyncDryRun(w) ==
    /\ At(w, "sync", "dry")
    /\ WStep(w, "ok", EndJob(Me(w)), <<Upd(w, Synced(NoCount))>>, <<>>, MyDisk(w), MyRemote(w))

\* if !fork.local_path.exists() { sync_fork_remote(..); return; }
SyncCheckLocal(w) ==
    /\ At(w, "sync", "exists")
    /\ WStep(w, "ok", [Me(w) EXCEPT !.pc = IF MyDisk(w).exists THEN "behind" ELSE "r_behind"],
             <<>>, <<>>, MyDisk(w), MyRemote(w))

\* a lookup whose failure ends the job
GetCommitsBehindFatal(w) ==
    /\ At(w, "sync", "behind") \/ At(w, "sync", "r_behind")
    /\ \E c \in BehindOutcomes :
         /\ c = NoCount => budget # 0
         /\ IF c = NoCount
            THEN WStep(w, "fail", EndJob(Me(w)), <<Upd(w, Failed("compare failed"))>>,
                       <<CmdCount(Me(w).job, "gh_api_compare", c)>>, MyDisk(w), MyRemote(w))
            ELSE WStep(w, "ok", [Me(w) EXCEPT !.commits_behind = c,
                                !.pc = IF Me(w).pc = "behind" THEN "status" ELSE "r_sync"],
                       IF Me(w).pc = "behind" THEN <<>> ELSE <<Upd(w, Syncing)>>,
                       <<CmdCount(Me(w).job, "gh_api_compare", c)>>,
                       MyDisk(w), MyRemote(w))

\* get_commits_behind, called by sync_fork_remote and by sync_single_fork
GetCommitsBehind(w) ==
    /\ At(w, "sync", "behind") \/ At(w, "sync", "r_behind")
    /\ \E c \in BehindOutcomes :
         /\ c = NoCount => budget # 0
         /\ WStep(w, IF c = NoCount THEN "fail" ELSE "ok", [Me(w) EXCEPT !.commits_behind = c,
                                !.pc = IF Me(w).pc = "behind" THEN "status" ELSE "r_sync"],
               IF Me(w).pc = "behind" THEN <<>> ELSE <<Upd(w, Syncing)>>,
               <<CmdCount(Me(w).job, "gh_api_compare", c)>>,
               MyDisk(w), MyRemote(w))

\* a remote-only sync that drops the count it looked up
RemoteSyncStatusNoCount(out, err, stdout_empty, behind) ==
    IF out = "ok" THEN Synced(NoCount)
    ELSE IF out = "fail"
         THEN IF Contains(err, "already up-to-date") \/ ~stdout_empty
              THEN Synced(0)
              ELSE Failed(truncate_error(err))
    ELSE Failed(truncate_error(SpawnErr))

\* a remote-only sync that takes every unsuccessful exit for a failure
RemoteSyncStatusStrict(out, err, stdout_empty, behind) ==
    IF out = "ok" THEN Synced(behind)
    ELSE IF out = "fail" THEN Failed(truncate_error(err))
    ELSE Failed(truncate_error(SpawnErr))

\* sync_fork_remote: the status a gh repo sync outcome is reported as
RemoteSyncStatus(out, err, stdout_empty, behind) ==
    IF out = "ok" THEN Synced(behind)
    ELSE IF out = "fail"
         THEN IF Contains(err, "already up-to-date") \/ ~stdout_empty
              THEN Synced(0)
              ELSE Failed(truncate_error(err))
    ELSE Failed(truncate_error(SpawnErr))

SyncForkRemote(w) ==
    /\ At(w, "sync", "r_sync")
    /\ \E out \in Allowed(GhSyncOutcomes(MyRemote(w))), err \in SyncErrs, stdout_empty \in BOOLEAN :
         WStep(w, out, EndJob(Me(w)),
               <<Upd(w, RemoteSyncStatus(out, err, stdout_empty, Me(w).commits_behind))>>,
               <<CmdOutput(Me(w).job, "gh_repo_sync", out, err, stdout_empty)>>,
               MyDisk(w), MyRemote(w))

\* git status --porcelain
GitStatus(w) ==
    /\ At(w, "sync", "status")
    /\ \E out \in Allowed(GitOutcomes(MyDisk(w)) \cup {"err"}) :
         IF out = "err"
         THEN WStep(w, out, EndJob(Me(w)), <<Upd(w, Failed(truncate_error(SpawnErr)))>>,
                    <<Cmd(Me(w).job, "git_status", out)>>, MyDisk(w), MyRemote(w))
         ELSE WStep(w, out, [Me(w) EXCEPT !.is_dirty = (out = "ok" /\ MyDisk(w).dirty),
                                     !.pc = "branch"],
                    <<>>, <<Cmd(Me(w).job, "git_status", out)>>, MyDisk(w), MyRemote(w))

\* git rev-parse --abbrev-ref HEAD
GitCurrentBranch(w) ==
    /\ At(w, "sync", "branch")
    /\ \E out \in Allowed(GitOutcomes(MyDisk(w))) :
         IF out = "ok"
         THEN WStep(w, out, [Me(w) EXCEPT !.original_branch = MyDisk(w).branch, !.pc = "unpushed"],
                    <<>>, <<Cmd(Me(w).job, "git_rev_parse", out)>>, MyDisk(w), MyRemote(w))
         ELSE WStep(w, out, EndJob(Me(w)), <<Upd(w, Failed("get branch failed"))>>,
                    <<Cmd(Me(w).job, "git_rev_parse", out)>>, MyDisk(w), MyRemote(w))

on_default_branch(wr) == wr.original_branch = DefaultBranch

\* after the stash block: checkout of the default branch if not on it, else
\* straight to send(Syncing) and gh repo sync
ToCheckout(w, wr) ==
    IF on_default_branch(wr)
    THEN [wr |-> [wr EXCEPT !.pc = "sync"], evs |-> <<Upd(w, Syncing)>>]
    ELSE [wr |-> [wr EXCEPT !.pc = "checkout"], evs |-> <<>>]

\* after the unpushed check: send(Stashing) and stash if is_dirty
ToStash(w, wr) ==
    IF wr.is_dirty
    THEN [wr |-> [wr EXCEPT !.pc = "stash"], evs |-> <<Upd(w, Stashing)>>]
    ELSE ToCheckout(w, wr)

\* the emptiness test without its negation
UnpushedInverted(out, d) == out = "ok" /\ ~d.ahead

\* a check that also skips when the query could not tell
UnpushedOrUnknown(out, d) == out # "ok" \/ d.ahead

\* if let Ok(output) = unpushed { if !output.stdout.is_empty() { Skipped } }
UnpushedDetected(out, d) == out = "ok" /\ d.ahead

\* git log origin/<default>..HEAD --oneline
GitUnpushed(w) ==
    /\ At(w, "sync", "unpushed")
    /\ \E out \in Allowed(GitOutcomes(MyDisk(w)) \cup {"err"}) :
         IF UnpushedDetected(out, MyDisk(w))
         THEN WStep(w, out, EndJob(Me(w)), <<Upd(w, Skipped("unpushed commits"))>>,
                    <<Cmd(Me(w).job, "git_log_unpushed", out)>>, MyDisk(w), MyRemote(w))
         ELSE WStep(w, out, ToStash(w, Me(w)).wr, ToStash(w, Me(w)).evs,
                    <<Cmd(Me(w).job, "git_log_unpushed", out)>>, MyDisk(w), MyRemote(w))

\* a stash push whose failure is not looked at
GitStashPushIgnoringFailure(w) ==
    /\ At(w, "sync", "stash")
    /\ \E out \in Allowed(StashPushOutcomes(MyDisk(w))) :
         LET nx == ToCheckout(w, [Me(w) EXCEPT !.stashed = (out # "fail")])
         IN WStep(w, out, nx.wr, nx.evs, <<Cmd(Me(w).job, "git_stash_push", out)>>,
                  StashPush(MyDisk(w), out), MyRemote(w))

\* git stash push -m "repo-syncer auto-stash"
GitStashPush(w) ==
    /\ At(w, "sync", "stash")
    /\ \E out \in Allowed(StashPushOutcomes(MyDisk(w))) :
         IF out = "fail"
         THEN WStep(w, out, EndJob(Me(w)), <<Upd(w, Failed("stash failed"))>>,
                    <<Cmd(Me(w).job, "git_stash_push", out)>>, MyDisk(w), MyRemote(w))
         ELSE LET nx == ToCheckout(w, [Me(w) EXCEPT !.stashed = TRUE])
              IN WStep(w, out, nx.wr, nx.evs, <<Cmd(Me(w).job, "git_stash_push", out)>>,
                       StashPush(MyDisk(w), out), MyRemote(w))

\* git checkout <default_branch>
GitCheckoutDefault(w) ==
    /\ At(w, "sync", "checkout")
    /\ \E out \in Allowed(GitOutcomes(MyDisk(w))) :
         IF out = "ok"
         THEN WStep(w, out, [Me(w) EXCEPT !.pc = "sync"], <<Upd(w, Syncing)>>,
                    <<Cmd(Me(w).job, "git_checkout_default", out)>>,
                    Checkout(MyDisk(w), DefaultBranch, out), MyRemote(w))
         ELSE IF Me(w).stashed
         THEN WStep(w, out, [Me(w) EXCEPT !.pc = "co_pop"], <<>>,
                    <<Cmd(Me(w).job, "git_checkout_default", out)>>, MyDisk(w), MyRemote(w))
         ELSE WStep(w, out, EndJob(Me(w)), <<Upd(w, Failed("checkout failed"))>>,
                    <<Cmd(Me(w).job, "git_checkout_default", out)>>, MyDisk(w), MyRemote(w))

\* checkout failed and a stash exists: git stash pop, then Failed
CheckoutFailedPop(w) ==
    /\ At(w, "sync", "co_pop")
    /\ \E out \in Allowed(StashPopOutcomes(MyDisk(w))) :
         WStep(w, out, EndJob(Me(w)), <<Upd(w, Failed("checkout failed"))>>,
               <<Cmd(Me(w).job, "git_stash_pop", out)>>,
               StashPop(MyDisk(w), out), MyRemote(w))

\* if !sync_success: which restore command comes first, if any
RollbackStart(wr) ==
    IF ~on_default_branch(wr) THEN "rb_checkout"
    ELSE IF wr.stashed THEN "rb_pop"
    ELSE "fail"

\* gh repo sync <fork> --source <parent> --branch <default>
GhRepoSync(w) ==
    /\ At(w, "sync", "sync")
    /\ \E out \in Allowed(GhSyncOutcomes(MyRemote(w))), err \in SyncErrs, stdout_empty \in BOOLEAN :
         LET ran == <<CmdOutput(Me(w).job, "gh_repo_sync", out, err, stdout_empty)>>
         IN IF out = "ok"
            THEN WStep(w, out, [Me(w) EXCEPT !.pc = "pull"], <<Upd(w, Fetching)>>, ran,
                       MyDisk(w), MyRemote(w))
            ELSE IF RollbackStart(Me(w)) = "fail"
            THEN WStep(w, out, EndJob(Me(w)), <<Upd(w, Failed("sync failed"))>>, ran,
                       MyDisk(w), MyRemote(w))
            ELSE WStep(w, out, [Me(w) EXCEPT !.pc = RollbackStart(Me(w))], <<>>, ran,
                       MyDisk(w), MyRemote(w))

\* sync failed: git checkout <original_branch>
RollbackCheckout(w) ==
    /\ At(w, "sync", "rb_checkout")
    /\ \E out \in Allowed(GitOutcomes(MyDisk(w))) :
         IF Me(w).stashed
         THEN WStep(w, out, [Me(w) EXCEPT !.pc = "rb_pop"], <<>>,
                    <<Cmd(Me(w).job, "git_checkout_original", out)>>,
                    Checkout(MyDisk(w), Me(w).original_branch, out), MyRemote(w))
         ELSE WStep(w, out, EndJob(Me(w)), <<Upd(w, Failed("sync failed"))>>,
                    <<Cmd(Me(w).job, "git_checkout_original", out)>>,
                    Checkout(MyDisk(w), Me(w).original_branch, out), MyRemote(w))

\* sync failed: git stash pop, then Failed("sync failed")
RollbackPop(w) ==
    /\ At(w, "sync", "rb_pop")
    /\ \E out \in Allowed(StashPopOutcomes(MyDisk(w))) :
         WStep(w, out, EndJob(Me(w)), <<Upd(w, Failed("sync failed"))>>,
               <<Cmd(Me(w).job, "git_stash_pop", out)>>,
               StashPop(MyDisk(w), out), MyRemote(w))

\* a restore phase that reports Synced before it restores
ToRestoreSyncedFirst(w, wr) ==
    IF ~on_default_branch(wr)
    THEN [wr |-> [wr EXCEPT !.pc = "rs_checkout"],
          evs |-> <<Upd(w, Synced(wr.commits_behind))>>]
    ELSE IF wr.stashed
    THEN [wr |-> [wr EXCEPT !.pc = "rs_pop"], evs |-> <<Upd(w, Synced(wr.commits_behind))>>]
    ELSE [wr |-> EndJob(wr), evs |-> <<Upd(w, Synced(wr.commits_behind))>>]

\* the restore phase: Restoring + checkout, Restoring + pop, then Synced
ToRestore(w, wr) ==
    IF ~on_default_branch(wr)
    THEN [wr |-> [wr EXCEPT !.pc = "rs_checkout"], evs |-> <<Upd(w, Restoring)>>]
    ELSE IF wr.stashed
    THEN [wr |-> [wr EXCEPT !.pc = "rs_pop"], evs |-> <<Upd(w, Restoring)>>]
    ELSE [wr |-> EndJob(wr), evs |-> <<Upd(w, Synced(wr.commits_behind))>>]

\* git pull --ff-only
GitPull(w) ==
    /\ At(w, "sync", "pull")
    /\ \E out \in Allowed(GitOutcomes(MyDisk(w))) :
         IF out = "ok"
         THEN WStep(w, out, ToRestore(w, Me(w)).wr, ToRestore(w, Me(w)).evs,
                    <<Cmd(Me(w).job, "git_pull", out)>>, MyDisk(w), MyRemote(w))
         ELSE WStep(w, out, [Me(w) EXCEPT !.pc = "fetch"], <<>>,
                    <<Cmd(Me(w).job, "git_pull", out)>>, MyDisk(w), MyRemote(w))

\* a fallback that gives up the reset when the fetch fails
GitFetchStopOnFailure(w) ==
    /\ At(w, "sync", "fetch")
    /\ \E out \in Allowed(GitOutcomes(MyDisk(w))) :
         IF out = "ok"
         THEN WStep(w, out, [Me(w) EXCEPT !.pc = "reset"], <<>>,
                    <<Cmd(Me(w).job, "git_fetch", out)>>, MyDisk(w), MyRemote(w))
         ELSE WStep(w, out, ToRestore(w, Me(w)).wr, ToRestore(w, Me(w)).evs,
                    <<Cmd(Me(w).job, "git_fetch", out)>>, MyDisk(w), MyRemote(w))

\* git fetch origin
GitFetch(w) ==
    /\ At(w, "sync", "fetch")
    /\ \E out \in Allowed(GitOutcomes(MyDisk(w))) :
         WStep(w, out, [Me(w) EXCEPT !.pc = "reset"], <<>>,
               <<Cmd(Me(w).job, "git_fetch", out)>>, MyDisk(w), MyRemote(w))

\* git reset --hard origin/<default_branch>
GitResetHard(w) ==
    /\ At(w, "sync", "reset")
    /\ \E out \in Allowed(GitOutcomes(MyDisk(w))) :
         WStep(w, out, ToRestore(w, Me(w)).wr, ToRestore(w, Me(w)).evs,
               <<Cmd(Me(w).job, "git_reset_hard", out)>>,
               ResetHard(MyDisk(w), out), MyRemote(w))

\* a restore that reports a failed checkout of the original branch
RestoreCheckoutStopOnFailure(w) ==
    /\ At(w, "sync", "rs_checkout")
    /\ \E out \in Allowed(GitOutcomes(MyDisk(w))) :
         IF out # "ok"
         THEN WStep(w, out, EndJob(Me(w)), <<Upd(w, Failed("restore failed"))>>,
                    <<Cmd(Me(w).job, "git_checkout_original", out)>>,
                    MyDisk(w), MyRemote(w))
         ELSE IF Me(w).stashed
         THEN WStep(w, out, [Me(w) EXCEPT !.pc = "rs_pop"], <<Upd(w, Restoring)>>,
                    <<Cmd(Me(w).job, "git_checkout_original", out)>>,
                    Checkout(MyDisk(w), Me(w).original_branch, out), MyRemote(w))
         ELSE WStep(w, out, EndJob(Me(w)), <<Upd(w, Synced(Me(w).commits_behind))>>,
                    <<Cmd(Me(w).job, "git_checkout_original", out)>>,
                    Checkout(MyDisk(w), Me(w).original_branch, out), MyRemote(w))

\* restore: git checkout <original_branch>
RestoreCheckout(w) ==
    /\ At(w, "sync", "rs_checkout")
    /\ \E out \in Allowed(GitOutcomes(MyDisk(w))) :
         IF Me(w).stashed
         THEN WStep(w, out, [Me(w) EXCEPT !.pc = "rs_pop"], <<Upd(w, Restoring)>>,
                    <<Cmd(Me(w).job, "git_checkout_original", out)>>,
                    Checkout(MyDisk(w), Me(w).original_branch, out), MyRemote(w))
         ELSE WStep(w, out, EndJob(Me(w)), <<Upd(w, Synced(Me(w).commits_behind))>>,
                    <<Cmd(Me(w).job, "git_checkout_original", out)>>,
                    Checkout(MyDisk(w), Me(w).original_branch, out), MyRemote(w))

\* restore: git stash pop, then Synced(commits_behind)
RestorePop(w) ==
    /\ At(w, "sync", "rs_pop")
    /\ \E out \in Allowed(StashPopOutcomes(MyDisk(w))) :
         WStep(w, out, EndJob(Me(w)), <<Upd(w, Synced(Me(w).commits_behind))>>,
               <<Cmd(Me(w).job, "git_stash_pop", out)>>,
               StashPop(MyDisk(w), out), MyRemote(w))

SyncStep(w) ==
    \/ SyncStart(w) \/ SyncDryRun(w) \/ SyncCheckLocal(w) \/ GetCommitsBehind(w)
    \/ SyncForkRemote(w) \/ GitStatus(w) \/ GitCurrentBranch(w) \/ GitUnpushed(w)
    \/ GitStashPush(w) \/ GitCheckoutDefault(w) \/ CheckoutFailedPop(w)
    \/ GhRepoSync(w) \/ RollbackCheckout(w) \/ RollbackPop(w)
    \/ GitPull(w) \/ GitFetch(w) \/ GitResetHard(w)
    \/ RestoreCheckout(w) \/ RestorePop(w)

\* ----------------------------------------------------- clone_single_fork
CloneStart(w) ==
    /\ At(w, "clone", "start")
    /\ WStep(w, "ok", [Me(w) EXCEPT !.pc = IF Me(w).dry THEN "dry" ELSE "mkdir",
                           !.pre = IF observe THEN MyDisk(w) ELSE NoDisk],
             <<Upd(w, Cloning)>>, <<>>, MyDisk(w), MyRemote(w))

\* a dry run that forgets the structural event
CloneDryRunStatusOnly(w) ==
    /\ At(w, "clone", "dry")
    /\ WStep(w, "ok", EndJob(Me(w)), <<Upd(w, Synced(NoCount))>>, <<>>, MyDisk(w), MyRemote(w))

CloneDryRun(w) ==
    /\ At(w, "clone", "dry")
    /\ WStep(w, "ok", EndJob(Me(w)), <<Upd(w, Synced(NoCount)), ForkCloned(w, Me(w).job)>>,
             <<>>, MyDisk(w), MyRemote(w))

\* a clone that goes on to gh repo clone whatever create_dir_all returned
CloneMkdirIgnoringFailure(w) ==
    /\ At(w, "clone", "mkdir")
    /\ \E out \in Allowed({"ok", "fail"}) :
         WStep(w, out, [Me(w) EXCEPT !.pc = "clone"], <<>>,
               <<Cmd(Me(w).job, "create_dir_all", out)>>, MyDisk(w), MyRemote(w))

\* std::fs::create_dir_all(parent)
CloneMkdir(w) ==
    /\ At(w, "clone", "mkdir")
    /\ \E out \in Allowed({"ok", "fail"}) :
         IF out = "ok"
         THEN WStep(w, out, [Me(w) EXCEPT !.pc = "clone"], <<>>,
                    <<Cmd(Me(w).job, "create_dir_all", out)>>, MyDisk(w), MyRemote(w))
         ELSE WStep(w, out, EndJob(Me(w)), <<Upd(w, Failed("mkdir: " \o MkdirErr))>>,
                    <<Cmd(Me(w).job, "create_dir_all", out)>>, MyDisk(w), MyRemote(w))

\* the structural event sent before the terminal status
OpResultStructuralFirst(w, out, err, structural) ==
    IF out = "ok" THEN <<structural, Upd(w, Synced(NoCount))>>
    ELSE IF out = "fail" THEN <<Upd(w, Failed(truncate_error(err)))>>
    ELSE <<Upd(w, Failed(truncate_error(SpawnErr)))>>

\* the events a finished gh command is reported with: on success the terminal
\* status and then the structural event
OpResult(w, out, err, structural) ==
    IF out = "ok" THEN <<Upd(w, Synced(NoCount)), structural>>
    ELSE IF out = "fail" THEN <<Upd(w, Failed(truncate_error(err)))>>
    ELSE <<Upd(w, Failed(truncate_error(SpawnErr)))>>

\* gh repo clone <owner>/<name> <local_path>
CloneRun(w) ==
    /\ At(w, "clone", "clone")
    /\ \E out \in Allowed(GhCloneOutcomes(MyRemote(w), MyDisk(w))), err \in OtherErrs :
         WStep(w, out, EndJob(Me(w)), OpResult(w, out, err, ForkCloned(w, Me(w).job)),
               <<Cmd(Me(w).job, "gh_repo_clone", out)>>,
               IF out = "ok" THEN FreshClone ELSE MyDisk(w), MyRemote(w))

CloneStep(w) == CloneStart(w) \/ CloneDryRun(w) \/ CloneMkdir(w) \/ CloneRun(w)

\* ---------------------------------------------------- archive_fork_async
ArchiveStart(w) ==
    /\ At(w, "archive", "start")
    /\ WStep(w, "ok", [Me(w) EXCEPT !.pc = IF Me(w).dry THEN "dry" ELSE "archive",
                           !.pre = IF observe THEN MyDisk(w) ELSE NoDisk],
             <<Upd(w, Archiving)>>, <<>>, MyDisk(w), MyRemote(w))

ArchiveDryRun(w) ==
    /\ At(w, "archive", "dry")
    /\ WStep(w, "ok", EndJob(Me(w)), <<Upd(w, Synced(NoCount)), ForkArchived(w, Me(w).job)>>,
             <<>>, MyDisk(w), MyRemote(w))

\* gh repo archive <owner>/<name> --yes
ArchiveRun(w) ==
    /\ At(w, "archive", "archive")
    /\ \E out \in Allowed(GhArchiveOutcomes(MyRemote(w))), err \in OtherErrs :
         WStep(w, out, EndJob(Me(w)), OpResult(w, out, err, ForkArchived(w, Me(w).job)),
               <<Cmd(Me(w).job, "gh_repo_archive", out)>>, MyDisk(w),
               IF out = "ok" THEN [MyRemote(w) EXCEPT !.state = "archived"] ELSE MyRemote(w))

ArchiveStep(w) == ArchiveStart(w) \/ ArchiveDryRun(w) \/ ArchiveRun(w)

\* ----------------------------------------------------- delete_fork_async
\* a delete that does not look at dry_run
DeleteStartIgnoringDryRun(w) ==
    /\ At(w, "delete", "start")
    /\ WStep(w, "ok", [Me(w) EXCEPT !.pc = "rm",
                           !.pre = IF observe THEN MyDisk(w) ELSE NoDisk],
             <<Upd(w, Deleting)>>, <<>>, MyDisk(w), MyRemote(w))

DeleteStart(w) ==
    /\ At(w, "delete", "start")
    /\ WStep(w, "ok", [Me(w) EXCEPT !.pc = IF Me(w).dry THEN "dry" ELSE "rm",
                           !.pre = IF observe THEN MyDisk(w) ELSE NoDisk],
             <<Upd(w, Deleting)>>, <<>>, MyDisk(w), MyRemote(w))

DeleteDryRun(w) ==
    /\ At(w, "delete", "dry")
    /\ WStep(w, "ok", EndJob(Me(w)), <<Upd(w, Synced(NoCount)), ForkDeleted(w, Me(w).job)>>,
             <<>>, MyDisk(w), MyRemote(w))

\* a local removal whose failure does not stop the delete
DeleteLocalIgnoringFailure(w) ==
    /\ At(w, "delete", "rm")
    /\ IF ~MyDisk(w).exists
       THEN WStep(w, "ok", [Me(w) EXCEPT !.pc = "delete"], <<>>, <<>>, MyDisk(w), MyRemote(w))
       ELSE \E out \in Allowed({"ok", "fail"}) :
              WStep(w, out, [Me(w) EXCEPT !.pc = "delete"], <<>>,
                    <<Cmd(Me(w).job, "remove_dir_all", out)>>,
                    IF out = "ok" THEN NoDisk ELSE MyDisk(w), MyRemote(w))

\* Step 1: if fork.local_path.exists() { std::fs::remove_dir_all(..) }
DeleteLocal(w) ==
    /\ At(w, "delete", "rm")
    /\ IF ~MyDisk(w).exists
       THEN WStep(w, "ok", [Me(w) EXCEPT !.pc = "delete"], <<>>, <<>>, MyDisk(w), MyRemote(w))
       ELSE \E out \in Allowed({"ok", "fail"}) :
              IF out = "ok"
              THEN WStep(w, out, [Me(w) EXCEPT !.pc = "delete"], <<>>,
                         <<Cmd(Me(w).job, "remove_dir_all", out)>>, NoDisk, MyRemote(w))
              ELSE WStep(w, out, EndJob(Me(w)),
                         <<Upd(w, Failed(truncate_error("rm local: " \o MkdirErr)))>>,
                         <<Cmd(Me(w).job, "remove_dir_all", out)>>, MyDisk(w), MyRemote(w))

\* the scope name misspelt with a hyphen
IsScopeErrorHyphen(err) == Contains(err, "delete-repo") /\ Contains(err, "scope")

\* err.contains("delete_repo") && err.contains("scope")
IsScopeError(err) == Contains(err, "delete_repo") /\ Contains(err, "scope")

\* the events a finished gh repo delete is reported with
DeleteResult(w, out, err) ==
    IF out = "fail" /\ IsScopeError(err)
    THEN <<Upd(w, Pending), ActionableError(w, Me(w).job)>>
    ELSE OpResult(w, out, err, ForkDeleted(w, Me(w).job))

\* Step 2: gh repo delete <owner>/<name> --yes
DeleteRemote(w) ==
    /\ At(w, "delete", "delete")
    /\ \E out \in Allowed(GhDeleteOutcomes(MyRemote(w))), err \in DeleteErrs :
         WStep(w, out, EndJob(Me(w)), DeleteResult(w, out, err),
               <<CmdErr(Me(w).job, "gh_repo_delete", out, err)>>, MyDisk(w),
               IF out = "ok" THEN [MyRemote(w) EXCEPT !.state = "deleted"] ELSE MyRemote(w))

DeleteStep(w) == DeleteStart(w) \/ DeleteDryRun(w) \/ DeleteLocal(w) \/ DeleteRemote(w)

WorkerStep(w) == SyncStep(w) \/ CloneStep(w) \/ ArchiveStep(w) \/ DeleteStep(w)

\* =================================================================== App
\* App::new: every status Pending, nothing selected, cursor on the first row
AppNew(forks, dry_run) ==
    [forks |-> forks,
     statuses |-> [i \in 1..Len(forks) |-> Pending],
     selected |-> [i \in 1..Len(forks) |-> FALSE],
     cursor |-> IF Len(forks) > 0 THEN 0 ELSE NoIdx,
     search_query |-> "",
     search_results |-> [i \in 1..Len(forks) |-> i - 1],
     mode |-> "Selecting",
     modal_action |-> "Sync",
     modal_button |-> 1,
     dry_run |-> dry_run,
     cache_status |-> "Fresh",
     panicked |-> FALSE,
     quit |-> FALSE]

\* the process is still running: main has neither returned nor panicked
Alive == ~app.quit /\ ~app.panicked

\* visible_forks().len()
VisibleLen(a) == Len(a.search_results)

\* current_fork_index: search_results.get(state.selected()?)
current_fork_index(a) ==
    IF a.cursor # NoIdx /\ a.cursor < VisibleLen(a)
    THEN a.search_results[a.cursor + 1] ELSE NoIdx

selected_count(a) == Cardinality({i \in 1..Len(a.selected) : a.selected[i]})

\* App::next / App::previous
next(a) ==
    IF VisibleLen(a) = 0 THEN a
    ELSE [a EXCEPT !.cursor = IF @ = NoIdx THEN 0 ELSE (@ + 1) % VisibleLen(a)]

previous(a) ==
    IF VisibleLen(a) = 0 THEN a
    ELSE [a EXCEPT !.cursor = IF @ = NoIdx THEN 0
                              ELSE IF @ = 0 THEN VisibleLen(a) - 1 ELSE @ - 1]

toggle_selection(a) ==
    IF current_fork_index(a) = NoIdx THEN a
    ELSE [a EXCEPT !.selected[current_fork_index(a) + 1] = ~@]

select_all(a) ==
    LET visible == {a.search_results[i] + 1 : i \in 1..Len(a.search_results)}
        all_selected == \A i \in visible : a.selected[i]
    IN [a EXCEPT !.selected = [i \in 1..Len(a.selected) |->
                                 IF i \in visible THEN ~all_selected ELSE a.selected[i]]]

mark_selected_as_pending(a) ==
    [a EXCEPT !.statuses = [i \in 1..Len(a.statuses) |->
                              IF a.selected[i] THEN Pending ELSE a.statuses[i]]]

is_all_done(a) ==
    \A i \in 1..Len(a.statuses) : ~a.selected[i] \/ IsTerminal(a.statuses[i])

reset_for_next_round(a) ==
    [a EXCEPT !.selected = [i \in 1..Len(a.forks) |->
                              IF a.statuses[i].k = "Synced" THEN FALSE ELSE a.selected[i]],
              !.statuses = [i \in 1..Len(a.forks) |-> Pending],
              !.modal_button = 1]

RECURSIVE SelSeq(_, _)
\* the (idx, fork) pairs of the selected rows from row i on, in list order
SelSeq(a, i) ==
    IF i > Len(a.forks) THEN <<>>
    ELSE IF a.selected[i]
         THEN <<[idx |-> i - 1, fork |-> a.forks[i].id]>> \o SelSeq(a, i + 1)
         ELSE SelSeq(a, i + 1)

forks_to_sync(a) == SelSeq(a, 1)

RemoveAt(s, i) == SubSeq(s, 1, i - 1) \o SubSeq(s, i + 1, Len(s))

\* format!("{}/{}", fork.parent_owner, fork.name)
Haystack(f) ==
    CASE f.id = 1 -> "up/ab"
      [] f.id = 2 -> "up/ba"
      [] OTHER -> "up/b"

RECURSIVE IsSubsequence(_, _)
IsSubsequence(q, h) ==
    IF Len(q) = 0 THEN TRUE
    ELSE IF Len(h) = 0 THEN FALSE
    ELSE IF SubSeq(h, 1, 1) = SubSeq(q, 1, 1)
         THEN IsSubsequence(SubSeq(q, 2, Len(q)), SubSeq(h, 2, Len(h)))
         ELSE IsSubsequence(q, SubSeq(h, 2, Len(h)))

\* fuzzy_matcher.fuzzy_match(haystack, query): no score (NoCount) unless the
\* characters of the query occur in the haystack in their order; an unbroken
\* occurrence scores higher than a scattered one
fuzzy_match(haystack, query) ==
    IF ~IsSubsequence(query, haystack) THEN NoCount
    ELSE IF Contains(haystack, query) THEN 2 ELSE 1

\* update_search: with an empty query every row, otherwise the rows that
\* match, best score first (the sort is stable); the cursor to the top
update_search(a) ==
    LET all == [i \in 1..Len(a.forks) |-> i - 1]
        score(i) == fuzzy_match(Haystack(a.forks[i + 1]), a.search_query)
        results == IF Len(a.search_query) = 0 THEN all
                   ELSE SelectSeq(all, LAMBDA i : score(i) = 2)
                            \o SelectSeq(all, LAMBDA i : score(i) = 1)
    IN [a EXCEPT !.search_results = results,
                 !.cursor = IF Len(results) = 0 THEN NoIdx ELSE 0]

\* a remove_fork that takes an index past the end for the last row
remove_fork_clamped(a, idx) ==
    LET i == IF idx < Len(a.forks) THEN idx + 1 ELSE Len(a.forks)
    IN IF Len(a.forks) > 0
       THEN update_search([a EXCEPT !.forks = RemoveAt(@, i),
                                    !.statuses = RemoveAt(@, i),
                                    !.selected = RemoveAt(@, i)])
       ELSE a

\* a remove_fork that leaves the search results as they were
remove_fork_stale_results(a, idx) ==
    IF idx < Len(a.forks)
    THEN [a EXCEPT !.forks = RemoveAt(@, idx + 1),
                   !.statuses = RemoveAt(@, idx + 1),
                   !.selected = RemoveAt(@, idx + 1)]
    ELSE a

remove_fork(a, idx) ==
    IF idx < Len(a.forks)
    THEN update_search([a EXCEPT !.forks = RemoveAt(@, idx + 1),
                                 !.statuses = RemoveAt(@, idx + 1),
                                 !.selected = RemoveAt(@, idx + 1)])
    ELSE a

\* ------------------------------------------------------------- key presses
\* a key press that only changes the App
Press(a2) ==
    /\ app' = a2
    /\ UNCHANGED <<chan, workers, disk, remote, budget, observe, cache, log, cmds>>

\* run_app drains the channel (while let Ok(..) = rx.try_recv()) before it
\* polls for a key
InMode(modes) == Alive /\ chan = <<>> /\ app.mode \in modes

\* j / k move the cursor in Selecting, Syncing and Done
KeyNext ==
    /\ InMode({"Selecting", "Syncing", "Done"})
    /\ Press(next(app))

KeyPrevious ==
    /\ InMode({"Selecting", "Syncing", "Done"})
    /\ Press(previous(app))

KeyToggle ==
    /\ InMode({"Selecting"})
    /\ Press(toggle_selection(app))

KeySelectAll ==
    /\ InMode({"Selecting"})
    /\ Press(select_all(app))

\* the characters typed into the search box
SearchKeys == {"a", "b"}

\* '/' in Selecting: the query is cleared, the results are left as they are
KeySlash ==
    /\ InMode({"Selecting"})
    /\ Press([app EXCEPT !.search_query = "", !.mode = "Search"])

\* handle_search_mode, Char(c): search_query.push(c); update_search()
SearchChar ==
    /\ InMode({"Search"})
    /\ Len(app.search_query) < MaxQuery
    /\ \E c \in SearchKeys : Press(update_search([app EXCEPT !.search_query = @ \o c]))

\* Backspace: search_query.pop(), which leaves an empty query empty
SearchBackspace ==
    /\ InMode({"Search"})
    /\ Press(update_search([app EXCEPT !.search_query =
                                IF Len(@) = 0 THEN @ ELSE SubSeq(@, 1, Len(@) - 1)]))

\* Esc: the query is cleared and the results recomputed
SearchEsc ==
    /\ InMode({"Search"})
    /\ Press([update_search([app EXCEPT !.search_query = ""]) EXCEPT !.mode = "Selecting"])

\* Enter: back to Selecting with the query and its results kept
SearchEnter ==
    /\ InMode({"Search"})
    /\ Press([app EXCEPT !.mode = "Selecting"])

\* Down / Up
SearchMove ==
    /\ InMode({"Search"})
    /\ \/ Press(next(app))
       \/ Press(previous(app))

\* Enter in Selecting: confirm a sync of the selection, or of the current row
OnEnter(a) ==
    IF selected_count(a) > 0
    THEN [a EXCEPT !.modal_action = "Sync", !.mode = "ConfirmModal"]
    ELSE IF current_fork_index(a) # NoIdx
    THEN [a EXCEPT !.selected[current_fork_index(a) + 1] = TRUE,
                   !.modal_action = "Sync", !.mode = "ConfirmModal"]
    ELSE a

KeyEnter ==
    /\ InMode({"Selecting"})
    /\ Press(OnEnter(app))

\* c / x / D on the current row open the confirm modal for that operation
OnOpKey(a, op) ==
    IF current_fork_index(a) = NoIdx THEN a
    ELSE IF op = "Clone" /\ a.forks[current_fork_index(a) + 1].is_cloned THEN a
    ELSE [a EXCEPT !.modal_action = op, !.mode = "ConfirmModal"]

KeyClone ==
    /\ InMode({"Selecting"})
    /\ Press(OnOpKey(app, "Clone"))

KeyArchive ==
    /\ InMode({"Selecting"})
    /\ Press(OnOpKey(app, "Archive"))

KeyDelete ==
    /\ InMode({"Selecting"})
    /\ Press(OnOpKey(app, "Delete"))

\* h / l / Tab in the confirm modal
KeyModalButton ==
    /\ InMode({"ConfirmModal"})
    /\ \E b \in {0, 1, 1 - app.modal_button} : Press([app EXCEPT !.modal_button = b])

\* n / Esc, or Enter on the cancel button
KeyModalCancel ==
    /\ InMode({"ConfirmModal"})
    /\ Press([app EXCEPT !.mode = "Selecting"])

\* r in Done
KeyReset ==
    /\ InMode({"Done"})
    /\ Press([reset_for_next_round(app) EXCEPT !.mode = "Selecting"])

\* the process ends (main returns, or the main thread panics): its threads
\* end with it and the channel is dropped
ProcessEnds(a2) ==
    /\ app' = a2
    /\ workers' = [w \in WorkerIds |->
                     IF workers[w].kind = "none" THEN workers[w]
                     ELSE [IdleWorker EXCEPT !.kind = workers[w].kind, !.pc = "killed"]]
    /\ chan' = <<>>
    /\ UNCHANGED <<disk, remote, budget, observe, cache, log, cmds>>

\* q (Esc, or Enter in Done): run_app returns and main exits
KeyQuit ==
    /\ InMode({"Selecting", "Syncing", "Done"})
    /\ ProcessEnds([app EXCEPT !.quit = TRUE])

\* ---------------------------------------------------- execute_modal_action
FreeSlots == {w \in WorkerIds : workers[w].kind = "none"}
NewSlot == CHOOSE w \in FreeSlots : \A v \in FreeSlots : w <= v

\* thread::spawn of one of the four workers
Spawn(kind, jobs, job, pc) ==
    /\ FreeSlots # {}
    /\ workers' = [workers EXCEPT ![NewSlot] =
            [IdleWorker EXCEPT !.kind = kind, !.pc = pc, !.dry = app.dry_run,
                               !.job = job, !.jobs = jobs, !.batch = jobs]]

OpKind(action) ==
    CASE action = "Clone" -> "clone"
      [] action = "Archive" -> "archive"
      [] action = "Delete" -> "delete"
      [] OTHER -> "none"

OpStatus(action) ==
    CASE action = "Clone" -> Cloning
      [] action = "Archive" -> Archiving
      [] action = "Delete" -> Deleting
      [] OTHER -> NoStatus

\* the App after execute_modal_action (y sets modal_button = 1, Enter needs it)
SyncDispatched(a) ==
    [mark_selected_as_pending(a) EXCEPT !.mode = "Syncing", !.modal_button = 1]

OpDispatched(a) ==
    LET idx == current_fork_index(a)
    IN IF idx = NoIdx
       THEN [a EXCEPT !.mode = "Selecting", !.modal_button = 1]
       ELSE [a EXCEPT !.statuses[idx + 1] = OpStatus(a.modal_action),
                      !.selected[idx + 1] = IF a.modal_action = "Clone" THEN TRUE ELSE @,
                      !.mode = "Selecting", !.modal_button = 1]

\* ModalAction::Sync
ExecuteSync ==
    /\ app.modal_action = "Sync"
    /\ app' = SyncDispatched(app)
    /\ Spawn("sync", forks_to_sync(app), NoJob,
             IF forks_to_sync(app) = <<>> THEN "done" ELSE "next")

\* ModalAction::Clone / Archive / Delete on the current row
ExecuteOp ==
    /\ app.modal_action \in {"Clone", "Archive", "Delete"}
    /\ app' = OpDispatched(app)
    /\ LET idx == current_fork_index(app)
       IN IF idx = NoIdx
          THEN UNCHANGED workers
          ELSE Spawn(OpKind(app.modal_action), <<>>,
                        [idx |-> idx, fork |-> app.forks[idx + 1].id], "start")

\* y (which first sets modal_button = 1), or Enter on the proceed button
KeyModalConfirm ==
    /\ InMode({"ConfirmModal"})
    /\ \E key \in {"y", "Enter"} :
         /\ key = "Enter" => app.modal_button = 1
         /\ ExecuteSync \/ ExecuteOp
    /\ UNCHANGED <<chan, disk, remote, budget, observe, cache, log, cmds>>

\* ------------------------------------------------ the consumer's event loop
\* if app.is_all_done() && app.mode == Mode::Syncing { app.mode = Mode::Done }
CheckDone(a) ==
    IF is_all_done(a) /\ a.mode = "Syncing" THEN [a EXCEPT !.mode = "Done"] ELSE a

\* rx.try_recv() returns an event of one of these types
Receivable(types) == Alive /\ chan # <<>> /\ Head(chan).t \in types

Received(a2) ==
    /\ chan' = Tail(chan)
    /\ app' = a2
    /\ UNCHANGED <<workers, disk, remote, budget, observe, cache, log, cmds>>

\* a consumer that takes a row out of the selection when its job is over
OnStatusUpdateDeselecting(a, idx, st) ==
    IF idx < Len(a.statuses)
    THEN CheckDone([a EXCEPT !.statuses[idx + 1] = st,
                             !.selected[idx + 1] = IF IsTerminal(st) THEN FALSE ELSE @])
    ELSE [a EXCEPT !.panicked = TRUE]

\* app.statuses[idx] = status: an index past the end panics
OnStatusUpdate(a, idx, st) ==
    IF idx < Len(a.statuses)
    THEN CheckDone([a EXCEPT !.statuses[idx + 1] = st])
    ELSE [a EXCEPT !.panicked = TRUE]

ApplyStatusUpdate ==
    /\ Receivable({"StatusUpdate"})
    /\ Head(chan).idx < Len(app.statuses)
    /\ Received(OnStatusUpdate(app, Head(chan).idx, Head(chan).st))

\* the index is past the end of statuses: the main thread panics
PanicOnStatusUpdate ==
    /\ Receivable({"StatusUpdate"})
    /\ Head(chan).idx >= Len(app.statuses)
    /\ ProcessEnds(OnStatusUpdate(app, Head(chan).idx, Head(chan).st))

\* ForkCloned(idx): is_cloned of that row is recomputed from the disk
OnForkCloned(a, idx) ==
    IF idx < Len(a.forks)
    THEN CheckDone([a EXCEPT !.forks[idx + 1].is_cloned = disk[a.forks[idx + 1].id].exists])
    ELSE CheckDone(a)

ApplyForkCloned ==
    /\ Receivable({"ForkCloned"})
    /\ Received(OnForkCloned(app, Head(chan).idx))

\* ForkArchived(idx) / ForkDeleted(idx): the consumer removes the row
OnForkRemoved(a, idx) == CheckDone(remove_fork(a, idx))

ApplyForkRemoved ==
    /\ Receivable({"ForkArchived", "ForkDeleted"})
    /\ Received(OnForkRemoved(app, Head(chan).idx))

\* ActionableError(details): shown in the error popup
OnActionableError(a) == CheckDone([a EXCEPT !.mode = "ErrorPopup"])

ApplyActionableError ==
    /\ Receivable({"ActionableError"})
    /\ Received(OnActionableError(app))

\* Esc / q / n / Enter in the error popup
KeyDismissError ==
    /\ InMode({"ErrorPopup"})
    /\ Press([app EXCEPT !.mode = "Selecting", !.modal_button = 1])

\* ================================================================ the cache
\* the forks the cache is given; Utc::now() as save_forks reads it
Owners == {"alice", "bob"}
RepoNames == {"repo", "tool"}
Descriptions == {"old", "new"}
Times == {"t1", "t2"}

CachedForks == [owner : Owners, name : RepoNames, description : Descriptions]

\* format!("{}/{}", fork.owner, fork.name)
ForkKey(owner, name) == owner \o "/" \o name

\* the row save_forks binds to its INSERT
ForkRow(f, now) ==
    [id |-> ForkKey(f.owner, f.name), owner |-> f.owner, name |-> f.name,
     description |-> f.description, fetched_at |-> now]

\* a table that takes every row it is given, whatever its id
PlainInsert(table, row) == table \cup {row}

\* INSERT OR REPLACE INTO forks, id being the PRIMARY KEY: a row with the same
\* id is deleted before the new one is inserted
InsertOrReplace(table, row) == {r \in table : r.id # row.id} \cup {row}

RECURSIVE save_forks(_, _, _)
\* for fork in forks { INSERT OR REPLACE .. }, all rows with the same now
save_forks(table, forks, now) ==
    IF forks = <<>> THEN table
    ELSE save_forks(InsertOrReplace(table, ForkRow(Head(forks), now)), Tail(forks), now)

\* DELETE FROM forks WHERE id = ?1
cache_remove_fork(table, owner, name) == {r \in table : r.id # ForkKey(owner, name)}

\* SELECT .. FROM forks: the forks as load_forks rebuilds them from the rows
load_forks(table) ==
    {[owner |-> r.owner, name |-> r.name, description |-> r.description] : r \in table}

\* open + init_schema on a new database: an empty forks table
NewCache == [table |-> {}, call |-> "open", forks |-> <<>>, now |-> ""]

\* the lists save_forks is called with
SavedLists ==
    {<<f>> : f \in CachedForks} \cup {<<f, g>> : f \in CachedForks, g \in CachedForks}

CacheOnly == UNCHANGED <<app, chan, workers, disk, remote, budget, observe, log, cmds>>

\* save_forks(forks): the loop stops at the first INSERT that fails, the rows
\* written before it stay (there is no transaction); k rows were written
CacheSaveForks ==
    /\ \E forks \in SavedLists, now \in Times, k \in 0..2 :
         /\ k <= Len(forks)
         /\ cache' = [table |-> save_forks(cache.table, SubSeq(forks, 1, k), now),
                      call |-> "save_forks", forks |-> SubSeq(forks, 1, k), now |-> now]
    /\ CacheOnly

\* save_fork(fork) = save_forks(from_ref(fork))
CacheSaveFork ==
    /\ \E f \in CachedForks, now \in Times :
         cache' = [table |-> save_forks(cache.table, <<f>>, now),
                   call |-> "save_fork", forks |-> <<f>>, now |-> now]
    /\ CacheOnly

\* remove_fork(owner, name)
CacheRemoveFork ==
    /\ \E o \in Owners, n \in RepoNames :
         cache' = [table |-> cache_remove_fork(cache.table, o, n),
                   call |-> "remove_fork",
                   forks |-> <<[owner |-> o, name |-> n, description |-> "old"]>>,
                   now |-> ""]
    /\ CacheOnly

\* ================================================================ the system
AllForks == [i \in 1..NumForks |-> i]

\* the clone each fork has on disk when the program starts
StartDisk(f) ==
    CASE f = 1 -> [exists |-> TRUE, branch |-> FeatureBranch, dirty |-> TRUE,
                   stash |-> <<>>, ahead |-> FALSE]
      [] f = 2 -> NoDisk
      [] OTHER -> [exists |-> TRUE, branch |-> DefaultBranch, dirty |-> FALSE,
                   stash |-> <<"user">>, ahead |-> TRUE]

ActiveRemote == [state |-> "active"]

\* ------------------------------------------------ the background refresh
\* fetch_forks_graphql: the user's forks that are not archived, is_cloned
\* being local_path.exists() at the time of the fetch
IsListed(f) == remote[f].state = "active"

RECURSIVE FetchedFrom(_)
FetchedFrom(f) ==
    IF f > NumForks THEN <<>>
    ELSE (IF IsListed(f) THEN <<[id |-> f, is_cloned |-> disk[f].exists]>> ELSE <<>>)
         \o FetchedFrom(f + 1)

fetch_forks_graphql == FetchedFrom(1)

\* the cache the 'R' handler opened, if any, and what saving to it returns
CacheOutcomes == {"none", "ok", "fail"}

\* R in Selecting: cache_status = Stale { refreshing: true } and a refresh
\* thread is spawned; nothing is looked at first
KeyRefresh ==
    /\ InMode({"Selecting"})
    /\ app' = [app EXCEPT !.cache_status = "Refreshing"]
    /\ Spawn("refresh", <<>>, NoJob, "fetch")
    /\ UNCHANGED <<chan, disk, remote, budget, observe, cache, log, cmds>>

\* a refresh that reports a failed cache write as a failed refresh
RefreshResultNeedsSave(w, fetched, saved) ==
    IF fetched = "ok" /\ saved # "fail"
    THEN ForksRefreshed(w, fetch_forks_graphql)
    ELSE RefreshFailed(w)

\* what the refresh thread sends for an outcome of the fetch
RefreshResult(w, fetched, saved) ==
    IF fetched = "ok" THEN ForksRefreshed(w, fetch_forks_graphql) ELSE RefreshFailed(w)

\* the refresh thread: fetch, save to the cache if there is one, one send
start_background_refresh(w) ==
    /\ At(w, "refresh", "fetch")
    /\ Len(chan) < MaxChan
    /\ \E fetched \in Allowed({"ok", "fail"}), saved \in CacheOutcomes :
         LET ev == RefreshResult(w, fetched, saved)
             cs == <<Cmd(NoJob, "fetch_forks_graphql", fetched)>> \o
                   (IF fetched = "ok" /\ saved # "none"
                    THEN <<Cmd(NoJob, "cache_save_forks", saved)>> ELSE <<>>)
         IN /\ budget' = IF fetched # "ok" /\ budget > 0 THEN budget - 1 ELSE budget
            /\ workers' = [workers EXCEPT ![w].pc = "done"]
            /\ chan' = Append(chan, ev)
            /\ log' = IF observe THEN [log EXCEPT ![w] = Append(@, ev)] ELSE log
            /\ cmds' = IF observe THEN [cmds EXCEPT ![w] = @ \o cs] ELSE cmds
    /\ UNCHANGED <<app, disk, remote, observe, cache>>

RefreshWork == \E w \in WorkerIds : start_background_refresh(w)

\* ForksRefreshed(forks): the list is replaced, rows as App::new makes them
OnForksRefreshed(a, forks) ==
    CheckDone(update_search(
        [a EXCEPT !.forks = forks,
                  !.statuses = [i \in 1..Len(forks) |-> Pending],
                  !.selected = [i \in 1..Len(forks) |-> FALSE],
                  !.cache_status = "Fresh"]))

ApplyForksRefreshed ==
    /\ Receivable({"ForksRefreshed"})
    /\ Received(OnForksRefreshed(app, Head(chan).list))

\* RefreshFailed(msg): the list stays, the cache is no longer refreshing
OnRefreshFailed(a) == CheckDone([a EXCEPT !.cache_status = "Stale"])

ApplyRefreshFailed ==
    /\ Receivable({"RefreshFailed"})
    /\ Received(OnRefreshFailed(app))

ConsumeRefresh == ApplyForksRefreshed \/ ApplyRefreshFailed

\* main: the fork list is loaded (is_cloned = local_path.exists()), App::new
Init ==
    /\ disk = [f \in ForkIds |-> StartDisk(f)]
    /\ remote = [f \in ForkIds |-> ActiveRemote]
    /\ \E dry_run \in BOOLEAN :
         app = AppNew([i \in 1..NumForks |-> [id |-> i, is_cloned |-> StartDisk(i).exists]],
                      dry_run)
    /\ chan = <<>>
    /\ budget = MaxFaults
    /\ observe = FALSE
    /\ cache = NewCache
    /\ workers = [w \in WorkerIds |-> IdleWorker]
    /\ log = [w \in WorkerIds |-> <<>>]
    /\ cmds = [w \in WorkerIds |-> <<>>]

Work == \E w \in WorkerIds : WorkerStep(w)

Consume ==
    \/ ApplyStatusUpdate \/ PanicOnStatusUpdate \/ ApplyForkCloned
    \/ ApplyForkRemoved \/ ApplyActionableError

Next ==
    \/ KeyNext \/ KeyPrevious \/ KeyToggle \/ KeySelectAll \/ KeyEnter
    \/ KeyClone \/ KeyArchive \/ KeyDelete
    \/ KeyModalButton \/ KeyModalCancel \/ KeyModalConfirm
    \/ KeyReset \/ KeyQuit \/ KeyDismissError
    \/ Consume
    \/ Work

Spec == Init /\ [][Next]_vars

\* ---------------------------------------- refreshes next to other workers
\* the program as started, with the histories on; the keys are those that
\* start a refresh, a batch sync or a single operation
InitRefresh ==
    /\ disk = [f \in ForkIds |-> StartDisk(f)]
    /\ remote = [f \in ForkIds |-> ActiveRemote]
    /\ \E dry_run \in BOOLEAN :
         app = AppNew([i \in 1..NumForks |-> [id |-> i, is_cloned |-> StartDisk(i).exists]],
                      dry_run)
    /\ chan = <<>>
    /\ budget = MaxFaults
    /\ observe = TRUE
    /\ cache = NewCache
    /\ workers = [w \in WorkerIds |-> IdleWorker]
    /\ log = [w \in WorkerIds |-> <<>>]
    /\ cmds = [w \in WorkerIds |-> <<>>]

NextRefresh ==
    \/ KeyRefresh \/ RefreshWork \/ ConsumeRefresh
    \/ KeyNext \/ KeyEnter \/ KeyClone \/ KeyArchive \/ KeyDelete \/ KeyModalConfirm
    \/ Work
    \/ Consume

SpecRefresh == InitRefresh /\ [][NextRefresh]_vars

\* ------------------------------------------------ one operation on its own
\* the clones an operation may find on disk
DiskStates ==
    {NoDisk} \cup
    {[exists |-> TRUE, branch |-> b, dirty |-> dy, stash |-> s, ahead |-> a] :
        b \in Branches, dy \in BOOLEAN, s \in {<<>>, <<"user">>}, a \in BOOLEAN}

OpAction(kind) ==
    CASE kind = "clone" -> "Clone"
      [] kind = "archive" -> "Archive"
      [] kind = "delete" -> "Delete"
      [] OTHER -> "Sync"

\* the state right after execute_modal_action has spawned one worker for one
\* fork: a batch sync of that fork alone, or a clone / archive / delete of it.
\* The row's is_cloned dates from the load of the list; a directory that has
\* appeared since then is how a clone can meet an existing path.
RunStart(refreshing) ==
    \E f \in ForkIds, d \in DiskStates, dry_run \in BOOLEAN,
       kind \in {"sync", "clone", "archive", "delete"} :
        LET job == [idx |-> f - 1, fork |-> f]
            a0 == [AppNew([i \in 1..NumForks |->
                             [id |-> i, is_cloned |-> (i = f /\ d.exists /\ kind # "clone")]],
                          dry_run)
                      EXCEPT !.cursor = f - 1,
                             !.cache_status = IF refreshing THEN "Refreshing" ELSE @]
            op == IF refreshing THEN 2 ELSE 1
        IN /\ disk = [g \in ForkIds |-> IF g = f THEN d ELSE NoDisk]
           /\ remote = [g \in ForkIds |-> ActiveRemote]
           /\ app = IF kind = "sync" THEN SyncDispatched(OnEnter(a0))
                    ELSE OpDispatched(OnOpKey(a0, OpAction(kind)))
           /\ chan = <<>>
           /\ budget = IF refreshing THEN MaxFaults ELSE Unlimited
           /\ observe = TRUE
           /\ cache = NewCache
           /\ workers = [w \in WorkerIds |->
                 IF w = op
                 THEN IF kind = "sync"
                      THEN [IdleWorker EXCEPT !.kind = kind, !.pc = "next", !.dry = dry_run,
                                              !.jobs = <<job>>, !.batch = <<job>>]
                      ELSE [IdleWorker EXCEPT !.kind = kind, !.pc = "start", !.dry = dry_run,
                                              !.job = job]
                 ELSE IF refreshing /\ w = 1
                 THEN [IdleWorker EXCEPT !.kind = "refresh", !.pc = "fetch", !.dry = dry_run]
                 ELSE IdleWorker]
           /\ log = [w \in WorkerIds |-> <<>>]
           /\ cmds = [w \in WorkerIds |-> <<>>]

InitRun == RunStart(FALSE)

\* the same with R pressed just before: the refresh thread is the first
\* spawned and nothing of it has run yet
InitRunRefresh == RunStart(TRUE)

ConsumeRun ==
    ApplyStatusUpdate \/ ApplyForkCloned \/ ApplyForkRemoved \/ ApplyActionableError

NextRun == Work \/ ConsumeRun

SpecRun == InitRun /\ [][NextRun]_vars

\* every thread keeps being scheduled and the event loop keeps polling
SpecRunFair == SpecRun /\ WF_vars(NextRun)

NextRunRefresh == Work \/ RefreshWork \/ ConsumeRun \/ ConsumeRefresh

SpecRunRefresh == InitRunRefresh /\ [][NextRunRefresh]_vars

\* ----------------------------------------------------- one batch on its own
\* the state right after execute_modal_action has started a batch sync of a
\* non-empty selection
BatchStart(obs) ==
    \E sel \in [1..NumForks -> BOOLEAN], dry_run \in BOOLEAN :
        LET a0 == [AppNew([i \in 1..NumForks |->
                             [id |-> i, is_cloned |-> StartDisk(i).exists]], dry_run)
                      EXCEPT !.selected = sel]
        IN /\ selected_count(a0) > 0
           /\ disk = [f \in ForkIds |-> StartDisk(f)]
           /\ remote = [f \in ForkIds |-> ActiveRemote]
           /\ app = SyncDispatched(OnEnter(a0))
           /\ chan = <<>>
           /\ budget = MaxFaults
           /\ observe = obs
           /\ cache = NewCache
           /\ workers = [w \in WorkerIds |->
                 IF w # 1 THEN IdleWorker
                 ELSE [IdleWorker EXCEPT !.kind = "sync", !.pc = "next", !.dry = dry_run,
                                         !.jobs = forks_to_sync(a0),
                                         !.batch = forks_to_sync(a0)]]
           /\ log = [w \in WorkerIds |-> <<>>]
           /\ cmds = [w \in WorkerIds |-> <<>>]

InitBatch == BatchStart(TRUE)

\* the same start with the histories switched off
InitBatchQuiet == BatchStart(FALSE)

SyncWork == \E w \in WorkerIds : SyncStep(w)

NextBatch == SyncWork \/ ApplyStatusUpdate

SpecBatch == InitBatch /\ [][NextBatch]_vars

\* the worker thread and the consumer loop keep running, and every external
\* command returns: a step that stays possible is eventually taken
SpecBatchFair == InitBatchQuiet /\ [][NextBatch]_vars /\ WF_vars(NextBatch)

\* ------------------------------------------- a command that never exits
\* the places where sync_single_fork is about to run an external command
CommandPcs ==
    {"behind", "r_behind", "r_sync", "status", "branch", "unpushed", "stash",
     "checkout", "co_pop", "sync", "rb_checkout", "rb_pop", "pull", "fetch",
     "reset", "rs_checkout", "rs_pop"}

\* Command::output() waits for the child to exit: with a child that never
\* exits the thread stays inside the call
CommandHangs(w) ==
    /\ \E pc \in CommandPcs : At(w, "sync", pc)
    /\ workers' = [workers EXCEPT ![w].pc = "hung"]
    /\ UNCHANGED <<app, chan, disk, remote, budget, observe, cache, log, cmds>>

HangWork == \E w \in WorkerIds : CommandHangs(w)

NextBatchHang == NextBatch \/ HangWork

\* a batch whose commands may also never exit; the threads keep running
SpecBatchHang == InitBatchQuiet /\ [][NextBatchHang]_vars /\ WF_vars(NextBatchHang)

\* ------------------------------------------------- the consumer on its own
\* the statuses an arriving update may carry
ArrivingStatuses == {Checking, Synced(NoCount), Failed("sync failed")}

\* what rx.try_recv() may return next: an update for a row of the list, a
\* removal with whatever index its worker was given, or a fetched list
Arriving ==
    {StatusUpdate(1, [idx |-> i, fork |-> 0], st) :
         i \in 0..(Len(app.statuses) - 1), st \in ArrivingStatuses}
    \cup {ForkArchived(1, [idx |-> i, fork |-> 0]) : i \in 0..NumForks}
    \cup {ForkDeleted(1, [idx |-> i, fork |-> 0]) : i \in 0..NumForks}
    \cup {ForksRefreshed(1, fetch_forks_graphql)}

EventArrives ==
    /\ Alive /\ chan = <<>>
    /\ \E e \in Arriving : chan' = <<e>>
    /\ UNCHANGED <<app, workers, disk, remote, budget, observe, cache, log, cmds>>

NextConsumer ==
    \/ EventArrives
    \/ ApplyStatusUpdate \/ ApplyForkRemoved \/ ApplyForksRefreshed
    \/ KeyNext \/ KeyToggle

\* the event loop fed with any sequence of events
SpecConsumer == Init /\ [][NextConsumer]_vars

\* ------------------------------------------------------ the App on its own
\* app.statuses[idx] = status, for a row of the list
StatusApplied ==
    /\ Alive
    /\ \E i \in 0..(Len(app.statuses) - 1), st \in ArrivingStatuses :
         Press(OnStatusUpdate(app, i, st))

CallMarkSelectedAsPending == Alive /\ Press(mark_selected_as_pending(app))

CallResetForNextRound == Alive /\ Press(reset_for_next_round(app))

\* remove_fork(idx), with an index of the list or past its end
CallRemoveFork == Alive /\ \E idx \in 0..NumForks : Press(remove_fork(app, idx))

NextApp ==
    \/ KeyNext \/ KeyPrevious \/ KeyToggle \/ KeySelectAll
    \/ KeySlash \/ SearchChar \/ SearchBackspace \/ SearchEsc \/ SearchEnter \/ SearchMove
    \/ StatusApplied
    \/ CallMarkSelectedAsPending \/ CallResetForNextRound \/ CallRemoveFork

\* App::new and then any sequence of operations on the App
SpecApp == Init /\ [][NextApp]_vars

\* ------------------------------------------------------ the cache on its own
NextCache == CacheSaveForks \/ CacheSaveFork \/ CacheRemoveFork

\* any sequence of calls on a cache opened on a new database
SpecCache == Init /\ [][NextCache]_vars

\* ================================================================ properties
Last(s) == s[Len(s)]

\* the commands worker w has run so far, by name
Ran(w, names) == \E i \in 1..Len(cmds[w]) : cmds[w][i].c \in names
RanOk(w, names) ==
    \E i \in 1..Len(cmds[w]) : cmds[w][i].c \in names /\ cmds[w][i].res = "ok"

IsTerminalEvent(e) == e.t = "StatusUpdate" /\ IsTerminal(e.st)
TerminalsAt(w) == {i \in 1..Len(log[w]) : IsTerminalEvent(log[w][i])}

Job(w) == workers[w].job
Over(w, kind) == workers[w].kind = kind /\ workers[w].pc = "done"

\* ------------------------------------------------------------------- C1
JobPos(w, idx) == CHOOSE p \in 1..Len(workers[w].batch) : workers[w].batch[p].idx = idx

\* C1: in a batch sync the one worker reports its jobs in list order: every
\* event belongs to a job of the list, the positions of the jobs the events
\* belong to never decrease, and where the log passes from one job to another
\* the earlier job has just sent its terminal status and the later job is the
\* next one of the list.
C1_BatchInListOrder ==
    \A w \in WorkerIds :
        workers[w].kind = "sync" =>
            /\ \A i \in 1..Len(log[w]) :
                 \E p \in 1..Len(workers[w].batch) : workers[w].batch[p].idx = log[w][i].idx
            /\ \A i, j \in 1..Len(log[w]) :
                 i < j => JobPos(w, log[w][i].idx) <= JobPos(w, log[w][j].idx)
            /\ \A i \in 1..(Len(log[w]) - 1) :
                 log[w][i].idx # log[w][i + 1].idx =>
                     /\ IsTerminalEvent(log[w][i])
                     /\ log[w][i + 1].st = Checking
                     /\ JobPos(w, log[w][i + 1].idx) = JobPos(w, log[w][i].idx) + 1

\* a real batch of at least two jobs has run to its end, each job with
\* several events
C1_Witness ==
    \E w \in WorkerIds :
        /\ Over(w, "sync") /\ ~workers[w].dry
        /\ Len(workers[w].batch) >= 2
        /\ Len(log[w]) >= 3 * Len(workers[w].batch)
        /\ \A p \in 1..Len(workers[w].batch) :
             \E i \in 1..Len(log[w]) : log[w][i].idx = workers[w].batch[p].idx

\* ------------------------------------------------------------------- C2
MutatingCmds ==
    {"git_stash_push", "git_checkout_default", "git_checkout_original", "gh_repo_sync",
     "git_pull", "git_fetch", "git_reset_hard", "git_stash_pop"}

\* the unpushed-commits query of a real sync of a cloned fork found commits
UnpushedFound(w) ==
    /\ workers[w].kind = "sync" /\ ~workers[w].dry
    /\ workers[w].pre.exists /\ workers[w].pre.ahead
    /\ RanOk(w, {"git_log_unpushed"})

SameBranchAndStash(w) ==
    /\ disk[Job(w).fork].branch = workers[w].pre.branch
    /\ disk[Job(w).fork].stash = workers[w].pre.stash

\* C2: once a real sync of a cloned fork has found unpushed commits, the run
\* is over with Skipped("unpushed commits") as its only terminal status, it
\* has run no stash push, checkout, remote sync, pull, fetch, reset or stash
\* pop, and the clone's branch and stash stack are what they were before.
C2_UnpushedSkipsUntouched ==
    \A w \in WorkerIds :
        UnpushedFound(w) =>
            /\ workers[w].pc = "done"
            /\ Last(log[w]).st = Skipped("unpushed commits")
            /\ TerminalsAt(w) = {Len(log[w])}
            /\ ~Ran(w, MutatingCmds)
            /\ SameBranchAndStash(w)
            /\ disk[Job(w).fork] = workers[w].pre

\* a dirty clone on a feature branch with a stash of the user's own: without
\* the skip it would have been stashed and switched
C2_Witness ==
    \E w \in WorkerIds :
        /\ UnpushedFound(w) /\ workers[w].pc = "done"
        /\ workers[w].pre.dirty
        /\ workers[w].pre.branch = FeatureBranch
        /\ workers[w].pre.stash # <<>>

\* ------------------------------------------------------------------- C3
\* a sync ended Failed("checkout failed") or Failed("sync failed") after its
\* stash push saved an entry or its checkout of the default branch succeeded
FailedAfterMutating(w) ==
    /\ Over(w, "sync")
    /\ RanOk(w, {"git_stash_push", "git_checkout_default"})
    /\ Last(log[w]).st \in {Failed("checkout failed"), Failed("sync failed")}

RollbackCmdsSucceeded(w) ==
    \A i \in 1..Len(cmds[w]) :
        cmds[w][i].c \in {"git_checkout_original", "git_stash_pop"} => cmds[w][i].res = "ok"

\* C3: after a sync that failed once it had mutated the clone, the checked-out
\* branch and the stash stack equal their values before the call.  Taken in
\* the case most favourable to the claim: every rollback command the run
\* issued exited successfully.
C3_RollbackRestores ==
    \A w \in WorkerIds :
        FailedAfterMutating(w) /\ RollbackCmdsSucceeded(w) => SameBranchAndStash(w)

\* ------------------------------------------------------------------- C4
StructuralTypes == {"ForkCloned", "ForkArchived", "ForkDeleted"}

StructuralOf(kind) ==
    CASE kind = "clone" -> "ForkCloned"
      [] kind = "archive" -> "ForkArchived"
      [] kind = "delete" -> "ForkDeleted"
      [] OTHER -> ""

GhCommandOf(kind) ==
    CASE kind = "clone" -> "gh_repo_clone"
      [] kind = "archive" -> "gh_repo_archive"
      [] kind = "delete" -> "gh_repo_delete"
      [] OTHER -> ""

StructuralsAt(w) == {i \in 1..Len(log[w]) : log[w][i].t \in StructuralTypes}

\* a clone, archive or delete whose gh command has exited successfully
OpSucceeded(w) ==
    /\ workers[w].kind \in {"clone", "archive", "delete"}
    /\ ~workers[w].dry
    /\ RanOk(w, {GhCommandOf(workers[w].kind)})

OneStructuralOneTerminal(w) ==
    /\ Cardinality(StructuralsAt(w)) = 1
    /\ Cardinality(TerminalsAt(w)) = 1
    /\ \A i \in StructuralsAt(w) :
         log[w][i].t = StructuralOf(workers[w].kind) /\ log[w][i].idx = Job(w).idx
    /\ \A i \in TerminalsAt(w) : log[w][i].idx = Job(w).idx

\* C4 as stated: a successful clone, archive or delete sends exactly one
\* structural event and exactly one terminal status for the job's index, the
\* structural event first and the terminal status second.
C4_StructuralThenTerminal ==
    \A w \in WorkerIds :
        OpSucceeded(w) =>
            /\ OneStructuralOneTerminal(w)
            /\ \A i \in StructuralsAt(w), j \in TerminalsAt(w) : i < j

\* C4, amended: a successful clone, archive or delete sends exactly one
\* structural event and exactly one terminal status, Synced(None), for the
\* job's index; the terminal status is sent first and the structural event
\* right after it, as the last event of the run.
C4_TerminalThenStructural ==
    \A w \in WorkerIds :
        OpSucceeded(w) =>
            /\ workers[w].pc = "done"
            /\ OneStructuralOneTerminal(w)
            /\ StructuralsAt(w) = {Len(log[w])}
            /\ TerminalsAt(w) = {Len(log[w]) - 1}
            /\ log[w][Len(log[w]) - 1].st = Synced(NoCount)

\* a delete that removed the local clone and then the remote repository
C4_Witness ==
    \E w \in WorkerIds :
        /\ OpSucceeded(w) /\ Over(w, "delete")
        /\ workers[w].pre.exists
        /\ Last(log[w]).t = "ForkDeleted"

\* ------------------------------------------------------------------- C5
\* gh repo delete exited non-zero with both 'delete_repo' and 'scope' on stderr
ScopeFailure(w) ==
    /\ workers[w].kind = "delete"
    /\ \E i \in 1..Len(cmds[w]) :
         /\ cmds[w][i].c = "gh_repo_delete" /\ cmds[w][i].res = "fail"
         /\ Contains(cmds[w][i].err, "delete_repo") /\ Contains(cmds[w][i].err, "scope")

\* C5: after a remote delete that failed with the missing-scope signature the
\* worker has sent no Failed status (no terminal status at all), it has sent
\* StatusUpdate(idx, Pending) and then exactly one ActionableError, and no
\* ForkDeleted.
C5_ScopeErrorIsActionable ==
    \A w \in WorkerIds :
        ScopeFailure(w) =>
            /\ \A i \in 1..Len(log[w]) : log[w][i].st.k # "Failed"
            /\ TerminalsAt(w) = {}
            /\ StructuralsAt(w) = {}
            /\ Cardinality({i \in 1..Len(log[w]) : log[w][i].t = "ActionableError"}) = 1
            /\ Last(log[w]).t = "ActionableError"
            /\ log[w][Len(log[w]) - 1] = StatusUpdate(w, Job(w), Pending)

C5_Witness ==
    \E w \in WorkerIds :
        /\ ScopeFailure(w) /\ Over(w, "delete")
        /\ Ran(w, {"remove_dir_all"})

\* ------------------------------------------------------------------- C6
DryRun(w) == workers[w].kind # "none" /\ workers[w].dry

\* the run is over and its one terminal status is Synced(None)
EndedSyncedNone(w) ==
    /\ workers[w].pc = "done"
    /\ TerminalsAt(w) # {}
    /\ \A i \in TerminalsAt(w) : log[w][i].st = Synced(NoCount)

\* what the compare lookup of the run printed
CompareCount(w) ==
    LET i == CHOOSE i \in 1..Len(cmds[w]) : cmds[w][i].c = "gh_api_compare"
    IN cmds[w][i].n

\* a real sync that ended Synced
SyncSucceeded(w) ==
    /\ Over(w, "sync") /\ ~workers[w].dry
    /\ Last(log[w]).st.k = "Synced"

DryRunTouchesNothing ==
    /\ [](\A w \in WorkerIds : DryRun(w) => cmds[w] = <<>>)
    /\ [][(\E w \in WorkerIds : DryRun(w)) => (disk' = disk /\ remote' = remote)]_vars

DryRunEndsSyncedNone ==
    (\E w \in WorkerIds : DryRun(w)) ~>
        (\A w \in WorkerIds : DryRun(w) => EndedSyncedNone(w))

\* C6 as stated: a dry run invokes no external process, changes nothing on
\* disk, and eventually sends a terminal Synced whose value is the value a
\* successful real run of the same operation reports.
C6_DryRunValueIsRealValue ==
    /\ DryRunTouchesNothing
    /\ DryRunEndsSyncedNone
    /\ [](\A w \in WorkerIds :
            OpSucceeded(w) \/ SyncSucceeded(w) =>
                \A i \in TerminalsAt(w) : log[w][i].st = Synced(NoCount))

\* C6, amended: a dry run of any operation invokes no external process and
\* changes neither the clone nor the remote, and it eventually sends the
\* terminal status Synced(None).  That is the value a successful real clone,
\* archive or delete reports; a successful real sync reports the count of its
\* compare lookup, Synced(commits_behind), or Synced(Some(0)) when the
\* remote-only sync finds the fork already up to date.
C6_DryRunSyncedNone ==
    /\ DryRunTouchesNothing
    /\ DryRunEndsSyncedNone
    /\ [](\A w \in WorkerIds :
            OpSucceeded(w) => \A i \in TerminalsAt(w) : log[w][i].st = Synced(NoCount))
    /\ [](\A w \in WorkerIds :
            SyncSucceeded(w) =>
                \/ Last(log[w]).st = Synced(CompareCount(w))
                \/ ~workers[w].pre.exists /\ Last(log[w]).st = Synced(0))

\* a dry run of a delete of a cloned fork is over: the clone is still there
C6_Witness ==
    \E w \in WorkerIds :
        /\ DryRun(w) /\ Over(w, "delete")
        /\ EndedSyncedNone(w)
        /\ workers[w].pre.exists /\ disk[Job(w).fork] = workers[w].pre

\* ------------------------------------------------------------------- C7
\* the kind of an event: the status of a StatusUpdate, else the message type
KindOf(e) == IF e.t = "StatusUpdate" THEN e.st.k ELSE e.t
Kinds(w) == [i \in 1..Len(log[w]) |-> KindOf(log[w][i])]

ProgressKinds == {"Stashing", "Syncing", "Fetching", "Restoring"}
NotProgress(k) == k \notin ProgressKinds

\* initial status, terminal success status, structural event where there is one
DryShape(kind) ==
    CASE kind = "sync" -> <<"Checking", "Synced">>
      [] kind = "clone" -> <<"Cloning", "Synced", "ForkCloned">>
      [] kind = "archive" -> <<"Archiving", "Synced", "ForkArchived">>
      [] kind = "delete" -> <<"Deleting", "Synced", "ForkDeleted">>
      [] OTHER -> <<>>

DryRunOver(w) == DryRun(w) /\ workers[w].pc = "done"
RealSuccess(w) == OpSucceeded(w) \/ SyncSucceeded(w)

\* C7 as stated: for each operation kind the sequence of event kinds of a dry
\* run is the sequence of event kinds of a successful real run.
C7_DryShapeIsRealShape ==
    \A w \in WorkerIds :
        /\ DryRunOver(w) => Kinds(w) = DryShape(workers[w].kind)
        /\ RealSuccess(w) => Kinds(w) = DryShape(workers[w].kind)

\* C7, amended: the event kinds of a dry run are those of a successful real
\* run of the same operation with the progress statuses Stashing, Syncing,
\* Fetching and Restoring left out.  A clone, archive or delete has none of
\* them, so its two sequences are identical; a real sync always has Syncing,
\* so its sequence is longer than the dry run's Checking, Synced.
C7_DryShapeIsRealShapeLessProgress ==
    \A w \in WorkerIds :
        /\ DryRunOver(w) => Kinds(w) = DryShape(workers[w].kind)
        /\ RealSuccess(w) => SelectSeq(Kinds(w), NotProgress) = DryShape(workers[w].kind)
        /\ OpSucceeded(w) => Kinds(w) = DryShape(workers[w].kind)
        /\ SyncSucceeded(w) => \E i \in 1..Len(log[w]) : Kinds(w)[i] = "Syncing"

\* a real sync of a dirty clone on a feature branch went through every phase
C7_Witness ==
    \E w \in WorkerIds :
        /\ SyncSucceeded(w)
        /\ workers[w].pre.dirty /\ workers[w].pre.branch = FeatureBranch
        /\ Kinds(w) = <<"Checking", "Stashing", "Syncing", "Fetching",
                        "Restoring", "Restoring", "Synced">>

\* ------------------------------------------------------------------- C8
\* C8: every event of a sync run is a StatusUpdate for the job's index, the
\* first is Checking, no terminal status is sent while the run goes on, and
\* when the run is over exactly one has been sent, as the last event.
\* (The remote-only path, sync_fork_remote, is part of the run.)
C8_OneTerminalLast ==
    \A w \in WorkerIds :
        workers[w].kind = "sync" =>
            /\ \A i \in 1..Len(log[w]) :
                 log[w][i].t = "StatusUpdate" /\ log[w][i].idx = Job(w).idx
            /\ Len(log[w]) > 0 => log[w][1].st = Checking
            /\ workers[w].pc # "done" => TerminalsAt(w) = {}
            /\ workers[w].pc = "done" => Len(log[w]) >= 2 /\ TerminalsAt(w) = {Len(log[w])}

\* a real sync went through stash, checkout, sync, pull and restore
C8_Witness ==
    \E w \in WorkerIds :
        /\ Over(w, "sync") /\ ~workers[w].dry
        /\ RanOk(w, {"git_stash_push"}) /\ RanOk(w, {"git_checkout_default"})
        /\ Ran(w, {"git_stash_pop"})
        /\ Last(log[w]).st.k = "Synced" /\ Last(log[w]).st.n = MaxBehind

\* ------------------------------------------------------------------- C9
\* the forks of the jobs a worker still has to start
Queued(w) == {workers[w].jobs[p].fork : p \in 1..Len(workers[w].jobs)}

\* worker w has been dispatched on fork f and has not yet sent the terminal
\* event of its operation on f
InFlight(w, f) ==
    /\ workers[w].kind # "none"
    /\ workers[w].pc \notin {"done", "killed"}
    /\ \/ f \in Queued(w)
       \/ workers[w].pc # "next" /\ Job(w).fork = f

\* C9: no fork ever has two operations in flight: the consumer dispatches no
\* operation on a fork whose earlier operation has not sent its terminal event.
C9_OneOperationPerFork ==
    \A f \in ForkIds : Cardinality({w \in WorkerIds : InFlight(w, f)}) <= 1

\* ------------------------------------------------------------------ C10
\* the forks a worker was dispatched on
Targets(w) ==
    IF workers[w].kind = "none" THEN {}
    ELSE IF workers[w].kind = "sync"
    THEN {workers[w].batch[p].fork : p \in 1..Len(workers[w].batch)}
    ELSE {Job(w).fork}

DisjointTargets ==
    \A v, w \in WorkerIds : v # w => Targets(v) \cap Targets(w) = {}

\* C10: the StatusUpdate(idx, s) the consumer is about to apply names a row
\* of the fork list, and that row holds the fork the job was dispatched for.
\* Taken in the case most favourable to the claim: no two workers were given
\* the same fork.
C10_IndexNamesItsFork ==
    /\ ~app.panicked
    /\ (DisjointTargets /\ Alive /\ chan # <<>> /\ Head(chan).t = "StatusUpdate") =>
           /\ Head(chan).idx < Len(app.forks)
           /\ app.forks[Head(chan).idx + 1].id = Head(chan).fork

\* ------------------------------------------------------------------ C11
\* the names of the commands worker w has run, in order
CmdNames(w) == [i \in 1..Len(cmds[w]) |-> cmds[w][i].c]

IsPrefix(s, t) == Len(s) <= Len(t) /\ SubSeq(t, 1, Len(s)) = s

\* a real sync of a fork that has no local directory
RemoteOnlySync(w) ==
    /\ workers[w].kind = "sync" /\ ~workers[w].dry
    /\ Len(log[w]) > 0
    /\ ~workers[w].pre.exists

\* C11: a real sync of a fork without a local directory runs the compare
\* lookup and then gh repo sync and nothing else; its statuses are Checking,
\* Syncing and one terminal status; when gh repo sync succeeded the terminal
\* status is Synced(c), c being what the lookup returned (no count if it
\* failed).
C11_RemoteOnlySync ==
    \A w \in WorkerIds :
        RemoteOnlySync(w) =>
            /\ IsPrefix(CmdNames(w), <<"gh_api_compare", "gh_repo_sync">>)
            /\ IsPrefix(Kinds(w), <<"Checking", "Syncing", Last(log[w]).st.k>>)
            /\ disk[Job(w).fork] = workers[w].pre
            /\ workers[w].pc = "done" =>
                 /\ CmdNames(w) = <<"gh_api_compare", "gh_repo_sync">>
                 /\ Len(log[w]) = 3 /\ TerminalsAt(w) = {3}
                 /\ cmds[w][2].res = "ok" => Last(log[w]).st = Synced(cmds[w][1].n)

\* the lookup printed a count and the sync succeeded; and the lookup failed
\* and the sync succeeded
C11_Witness ==
    \E w \in WorkerIds :
        /\ RemoteOnlySync(w) /\ workers[w].pc = "done"
        /\ cmds[w][2].res = "ok"
        /\ cmds[w][1].n = MaxBehind
        /\ Last(log[w]).st = Synced(MaxBehind)

\* ------------------------------------------------------------------ C12
CmdFailed(w, name) ==
    \E i \in 1..Len(cmds[w]) : cmds[w][i].c = name /\ cmds[w][i].res # "ok"

\* a real sync of a dirty clone that was not on the default branch is over;
\* git status reported the changes, gh repo sync succeeded and
\* git pull --ff-only failed
DirtyOffDefaultPullFailed(w) ==
    /\ Over(w, "sync") /\ ~workers[w].dry
    /\ workers[w].pre.exists /\ workers[w].pre.dirty
    /\ workers[w].pre.branch # DefaultBranch
    /\ RanOk(w, {"git_status"})
    /\ RanOk(w, {"gh_repo_sync"})
    /\ CmdFailed(w, "git_pull")

\* C12: a dirty clone off the default branch, no unpushed commits, remote sync
\* succeeds, fast-forward pull fails: the statuses are exactly Checking,
\* Stashing, Syncing, Fetching, Restoring, Synced, each once; the fallback
\* fetch and hard reset are run; the run ends on the original branch with the
\* stash popped.  Taken in the case most favourable to the claim: the two
\* restore commands exited successfully.
C12_DirtyOffDefaultSequence ==
    \A w \in WorkerIds :
        DirtyOffDefaultPullFailed(w) /\ RollbackCmdsSucceeded(w) =>
            /\ Kinds(w) = <<"Checking", "Stashing", "Syncing", "Fetching", "Restoring", "Synced">>
            /\ Ran(w, {"git_fetch"}) /\ Ran(w, {"git_reset_hard"})
            /\ SameBranchAndStash(w)

\* ------------------------------------------------------------------ C13
\* the position of the first command of that name in worker w's history
CmdAt(w, name) == CHOOSE i \in 1..Len(cmds[w]) : cmds[w][i].c = name

\* gh repo sync failed in a real sync of a cloned fork
RemoteSyncFailed(w) ==
    /\ workers[w].kind = "sync" /\ ~workers[w].dry
    /\ workers[w].pre.exists
    /\ CmdFailed(w, "gh_repo_sync")

\* C13: when gh repo sync fails in the sync of a cloned fork, the rollback
\* checks out the original branch (only if the run had changed the branch),
\* then pops the stash (only if the run had created one), and only after both
\* is Failed("sync failed") sent; no pull, fetch or reset is run.
C13_RollbackOrder ==
    \A w \in WorkerIds :
        RemoteSyncFailed(w) =>
            /\ ~Ran(w, {"git_pull", "git_fetch", "git_reset_hard"})
            /\ Ran(w, {"git_checkout_original"}) => RanOk(w, {"git_checkout_default"})
            /\ Ran(w, {"git_stash_pop"}) => RanOk(w, {"git_stash_push"})
            /\ workers[w].pc # "done" => TerminalsAt(w) = {}
            /\ workers[w].pc = "done" =>
                 /\ Last(log[w]).st = Failed("sync failed")
                 /\ TerminalsAt(w) = {Len(log[w])}
                 /\ RanOk(w, {"git_checkout_default"}) => Ran(w, {"git_checkout_original"})
                 /\ RanOk(w, {"git_stash_push"}) => Ran(w, {"git_stash_pop"})
                 /\ Ran(w, {"git_checkout_original"}) /\ Ran(w, {"git_stash_pop"}) =>
                      /\ CmdAt(w, "gh_repo_sync") < CmdAt(w, "git_checkout_original")
                      /\ CmdAt(w, "git_checkout_original") < CmdAt(w, "git_stash_pop")

\* ------------------------------------------------------------------ C14
\* the checkout of the default branch failed in a real sync of a cloned fork
CheckoutFailed(w) ==
    /\ workers[w].kind = "sync" /\ ~workers[w].dry
    /\ workers[w].pre.exists
    /\ CmdFailed(w, "git_checkout_default")

\* C14: when the checkout of the default branch fails, the stash is popped if
\* and only if this run created one, then Failed("checkout failed") is sent,
\* and gh repo sync is never run.
C14_CheckoutFailurePops ==
    \A w \in WorkerIds :
        CheckoutFailed(w) =>
            /\ ~Ran(w, {"gh_repo_sync"})
            /\ Ran(w, {"git_stash_pop"}) => RanOk(w, {"git_stash_push"})
            /\ workers[w].pc # "done" => TerminalsAt(w) = {}
            /\ workers[w].pc = "done" =>
                 /\ Last(log[w]).st = Failed("checkout failed")
                 /\ TerminalsAt(w) = {Len(log[w])}
                 /\ RanOk(w, {"git_stash_push"}) => Ran(w, {"git_stash_pop"})

\* ------------------------------------------------------------------ C15
\* git stash push failed in a real sync of a cloned fork
StashFailed(w) ==
    /\ workers[w].kind = "sync" /\ ~workers[w].dry
    /\ workers[w].pre.exists
    /\ \E i \in 1..Len(cmds[w]) :
         cmds[w][i].c = "git_stash_push" /\ cmds[w][i].res = "fail"

\* C15: when the tree is dirty and git stash push fails, the worker has sent
\* Stashing and then Failed("stash failed"), the run is over, and the stash
\* push is the last command it ran: no checkout, remote sync or stash pop.
C15_StashFailureIsFinal ==
    \A w \in WorkerIds :
        StashFailed(w) =>
            /\ workers[w].pc = "done"
            /\ Kinds(w) = <<"Checking", "Stashing", "Failed">>
            /\ Last(log[w]).st = Failed("stash failed")
            /\ Last(cmds[w]).c = "git_stash_push"
            /\ ~Ran(w, MutatingCmds \ {"git_stash_push"})
            /\ disk[Job(w).fork] = workers[w].pre

\* the clone was off the default branch, so a checkout would have come next
C15_Witness ==
    \E w \in WorkerIds :
        /\ StashFailed(w) /\ workers[w].pc = "done"
        /\ workers[w].pre.dirty
        /\ workers[w].pre.branch = FeatureBranch
        /\ Last(log[w]).st = Failed("stash failed")

\* ------------------------------------------------------------------ C16
\* gh repo sync succeeded in a real sync of a cloned fork
RemoteSyncOk(w) ==
    /\ workers[w].kind = "sync" /\ ~workers[w].dry
    /\ workers[w].pre.exists
    /\ RanOk(w, {"gh_repo_sync"})

RestorePcs == {"rs_checkout", "rs_pop", "done"}

\* C16: once gh repo sync has succeeded the run never reports Failed: when
\* git pull --ff-only fails it runs git fetch and then git reset --hard,
\* whatever the fetch returned, and whatever pull, fetch and reset returned it
\* goes on to the restore phase and ends with Synced.
C16_FallbackNeverFails ==
    \A w \in WorkerIds :
        RemoteSyncOk(w) =>
            /\ \A i \in 1..Len(log[w]) : KindOf(log[w][i]) \notin {"Failed", "Skipped"}
            /\ CmdFailed(w, "git_pull") =>
                 /\ workers[w].pc \in {"fetch", "reset"} \cup RestorePcs
                 /\ workers[w].pc \in RestorePcs =>
                      /\ Len(cmds[w]) >= CmdAt(w, "git_pull") + 2
                      /\ cmds[w][CmdAt(w, "git_pull") + 1].c = "git_fetch"
                      /\ cmds[w][CmdAt(w, "git_pull") + 2].c = "git_reset_hard"
            /\ workers[w].pc = "done" =>
                 /\ Ran(w, {"git_pull"})
                 /\ Last(log[w]).st.k = "Synced"
                 /\ TerminalsAt(w) = {Len(log[w])}
                 /\ RanOk(w, {"git_checkout_default"}) => Ran(w, {"git_checkout_original"})

\* pull, fetch and reset all failed and the run still ended Synced
C16_Witness ==
    \E w \in WorkerIds :
        /\ RemoteSyncOk(w) /\ workers[w].pc = "done"
        /\ CmdFailed(w, "git_pull") /\ CmdFailed(w, "git_fetch")
        /\ CmdFailed(w, "git_reset_hard")
        /\ Last(log[w]).st.k = "Synced"

\* ------------------------------------------------------------------ C17
\* a real sync that has made its compare lookup
LookedUp(w) ==
    /\ workers[w].kind = "sync" /\ ~workers[w].dry
    /\ Ran(w, {"gh_api_compare"})

LookupFailed(w) == LookedUp(w) /\ CompareCount(w) = NoCount

\* the terminal kinds a finished sync can have, told from the commands other
\* than the lookup: which one was the last and whether gh repo sync succeeded
ExpectedKinds(w) ==
    IF ~workers[w].pre.exists
    THEN IF RanOk(w, {"gh_repo_sync"}) THEN {"Synced"} ELSE {"Synced", "Failed"}
    ELSE IF Last(cmds[w]).c \in {"git_status", "git_rev_parse", "git_stash_push"}
    THEN {"Failed"}
    ELSE IF Last(cmds[w]).c = "git_log_unpushed" THEN {"Skipped"}
    ELSE IF RanOk(w, {"gh_repo_sync"}) THEN {"Synced"}
    ELSE {"Failed"}

\* the counts a Synced status can carry: the lookup's, or 0 when the
\* remote-only sync found the fork already up to date
ExpectedCounts(w) ==
    {CompareCount(w)} \cup
        (IF ~workers[w].pre.exists /\ ~RanOk(w, {"gh_repo_sync"}) THEN {0} ELSE {})

\* C17: a failed compare lookup changes nothing in a sync but the count: the
\* step after the lookup is the same whether it failed or not and no status
\* is sent for the failure; the terminal kind of the run is determined by the
\* other commands alone; a Synced status carries the lookup's count, absent
\* when the lookup failed.
C17_LookupFailureChangesOnlyCount ==
    \A w \in WorkerIds :
        LookedUp(w) =>
            /\ Last(cmds[w]).c = "gh_api_compare" =>
                 /\ workers[w].pc = IF workers[w].pre.exists THEN "status" ELSE "r_sync"
                 /\ Kinds(w) = IF workers[w].pre.exists THEN <<"Checking">>
                               ELSE <<"Checking", "Syncing">>
            /\ workers[w].pc # "done" =>
                 /\ TerminalsAt(w) = {}
                 /\ workers[w].commits_behind = CompareCount(w)
            /\ workers[w].pc = "done" =>
                 /\ Last(cmds[w]).c # "gh_api_compare"
                 /\ TerminalsAt(w) = {Len(log[w])}
                 /\ Last(log[w]).st.k \in ExpectedKinds(w)
                 /\ Last(log[w]).st.k = "Synced" => Last(log[w]).st.n \in ExpectedCounts(w)

\* the lookup failed and the sync went through stash, checkout, remote sync
\* and pull to Synced without a count
C17_Witness ==
    \E w \in WorkerIds :
        /\ LookupFailed(w) /\ workers[w].pc = "done"
        /\ RanOk(w, {"git_stash_push"}) /\ RanOk(w, {"git_checkout_default"})
        /\ RanOk(w, {"git_pull"})
        /\ Last(log[w]).st = Synced(NoCount)

\* ------------------------------------------------------------------ C18
\* a real delete of a fork whose local directory existed at dispatch
DeleteOfClone(w) ==
    /\ workers[w].kind = "delete" /\ ~workers[w].dry
    /\ Len(log[w]) > 0
    /\ workers[w].pre.exists

LocalRemovalFailed(w) == DeleteOfClone(w) /\ CmdFailed(w, "remove_dir_all")

\* C18: in a real delete of a cloned fork the local removal is attempted
\* before gh repo delete; when the removal fails the worker sends Failed, the
\* run is over, gh repo delete is never run and no ForkDeleted is sent.
C18_LocalRemovalFirst ==
    \A w \in WorkerIds :
        DeleteOfClone(w) =>
            /\ workers[w].pc \in {"delete", "done"} => cmds[w][1].c = "remove_dir_all"
            /\ Ran(w, {"gh_repo_delete"}) =>
                 /\ cmds[w][1].res = "ok"
                 /\ CmdAt(w, "remove_dir_all") < CmdAt(w, "gh_repo_delete")
            /\ LocalRemovalFailed(w) =>
                 /\ workers[w].pc = "done"
                 /\ Last(log[w]).st.k = "Failed"
                 /\ TerminalsAt(w) = {Len(log[w])}
                 /\ StructuralsAt(w) = {}
                 /\ ~Ran(w, {"gh_repo_delete"})
                 /\ remote[Job(w).fork].state # "deleted"

C18_Witness ==
    \E w \in WorkerIds :
        /\ LocalRemovalFailed(w) /\ workers[w].pc = "done"
        /\ Kinds(w) = <<"Deleting", "Failed">>
        /\ disk[Job(w).fork].exists

\* ------------------------------------------------------------------ C19
\* a real delete removed the local clone and gh repo delete then failed
RemoteDeleteFailedAfterRemoval(w) ==
    /\ DeleteOfClone(w) /\ workers[w].pc = "done"
    /\ RanOk(w, {"remove_dir_all"})
    /\ CmdFailed(w, "gh_repo_delete")

\* C19: a step that changes local state before a later step that can fail has
\* a rollback: when a delete has removed the local clone and gh repo delete
\* then fails, with the missing-scope error or any other, the local state is
\* again what it was before the dispatch.
C19_DeleteRestoresClone ==
    \A w \in WorkerIds :
        RemoteDeleteFailedAfterRemoval(w) => disk[Job(w).fork] = workers[w].pre

\* ------------------------------------------------------------------ C20
\* the terminal status of every job of the dispatched list has reached the
\* status table, which only a StatusUpdate for that job's index writes
AllJobsReported(w) ==
    \A p \in 1..Len(workers[w].batch) :
        IsTerminal(app.statuses[workers[w].batch[p].idx + 1])

BatchDispatched == \E w \in WorkerIds : workers[w].kind = "sync" /\ workers[w].batch # <<>>

BatchReported ==
    \A w \in WorkerIds : workers[w].kind = "sync" => Over(w, "sync") /\ AllJobsReported(w)

Unfinished(w) == workers[w].kind # "none" /\ workers[w].pc \notin {"done", "killed"}

\* C21: workers do not end each other: no step ends an unfinished worker
\* unless the user quits, so a single operation and the workers running next
\* to it all reach their terminal events.  Taken in the case most favourable
\* to the claim: no two workers were given the same fork.
C21_WorkersIndependent ==
    [][(DisjointTargets /\ ~app'.quit) =>
          \A w \in WorkerIds : Unfinished(w) => workers'[w].pc # "killed"]_vars

\* ------------------------------------------------------------------ C22
\* what a refresh thread has sent so far is what its one fetch calls for:
\* nothing before the fetch, then ForksRefreshed if the fetch succeeded,
\* whatever the cache write returned, and RefreshFailed if it failed
RefreshSentOne(wr, lg, cs) ==
    IF wr.pc = "fetch" THEN lg = <<>>
    ELSE /\ Len(lg) = 1
         /\ lg[1].t = IF cs[1].res = "ok" THEN "ForksRefreshed" ELSE "RefreshFailed"

\* this step is the refresh thread w running
RefreshRuns(w) ==
    /\ workers[w].kind = "refresh" /\ workers[w].pc = "fetch"
    /\ workers'[w].pc = "done"

\* C22: a refresh thread sends exactly one event, ForksRefreshed when its
\* fetch succeeded (also when the cache write failed) and RefreshFailed when
\* it failed; its step changes no other worker, no clone and no repository,
\* and no step of another worker changes the refresh thread.
C22_RefreshOnItsOwn ==
    [][\A w \in WorkerIds :
          /\ workers'[w].kind = "refresh" =>
                 RefreshSentOne(workers'[w], log'[w], cmds'[w])
          /\ RefreshRuns(w) =>
                 /\ \A v \in WorkerIds \ {w} : workers'[v] = workers[v]
                 /\ disk' = disk /\ remote' = remote /\ app' = app
                 /\ chan' = Append(chan, log'[w][1])
          /\ (workers[w].kind = "refresh" /\ ~RefreshRuns(w)) =>
                 workers'[w] = workers[w]]_vars

\* the fetch succeeded, the cache write failed, ForksRefreshed was sent, and
\* the operation running next to the refresh is in the middle of its job
C22_Witness ==
    \E w, v \in WorkerIds :
        /\ workers[w].kind = "refresh" /\ workers[w].pc = "done"
        /\ Len(cmds[w]) = 2 /\ cmds[w][2].res = "fail"
        /\ log[w][1].t = "ForksRefreshed"
        /\ Unfinished(v) /\ Len(cmds[v]) > 0

\* ------------------------------------------------------------------ C23
\* the refresh threads that have not sent their event yet
RefreshInFlight == {w \in WorkerIds : workers[w].kind = "refresh" /\ Unfinished(w)}

\* C23: at most one refresh thread is in flight: no second refresh is
\* started before the first has sent ForksRefreshed or RefreshFailed.
C23_OneRefreshInFlight == Cardinality(RefreshInFlight) <= 1

\* ------------------------------------------------------------------ C24
\* the batch threads that still have a job to start or to finish
BatchInFlight == {w \in WorkerIds : workers[w].kind = "sync" /\ Unfinished(w)}

\* C24: at most one batch sync is in flight: while a batch thread has jobs
\* left the consumer is in Syncing mode, so no second batch is dispatched.
C24_OneBatchInFlight ==
    /\ Cardinality(BatchInFlight) <= 1
    /\ BatchInFlight # {} => app.mode = "Syncing"

\* ------------------------------------------------------------------ C25
\* C25: a dispatched worker runs to completion: when the user quits during
\* Syncing mode, every batch thread that still has steps to run, rollback
\* and restore steps included, goes on running them.
C25_QuitLetsWorkersFinish ==
    [][(app.mode = "Syncing" /\ app'.quit) =>
          \A w \in BatchInFlight : workers'[w].pc # "killed"]_vars

\* ------------------------------------------------------------------ C26
\* worker w is inside a command that never exits
Hung(w) == workers[w].kind = "sync" /\ workers[w].pc = "hung"

\* the job worker w is in has been reported as timed out
TimedOut(w) ==
    /\ workers[w].job.idx >= 0 /\ workers[w].job.idx < Len(app.statuses)
    /\ app.statuses[workers[w].job.idx + 1] = Failed("timed out")

\* C26: a command that never exits is cut off by a timeout: its job is
\* reported Failed("timed out"), and the batch goes on, so that every job of
\* the batch reaches a terminal status.
C26_HangTimesOut ==
    /\ \A w \in WorkerIds : Hung(w) ~> TimedOut(w)
    /\ BatchDispatched ~> BatchReported

\* ------------------------------------------------------------------ C27
\* every batch thread dispatched so far has sent the terminal status of its
\* last job, and the consumer has received everything that was sent
BatchesOverAndDrained ==
    /\ Alive /\ chan = <<>>
    /\ BatchInFlight = {}
    /\ \E w \in WorkerIds : workers[w].kind = "sync" /\ workers[w].batch # <<>>

\* C27: the consumer alone declares a batch done: the mode goes from Syncing
\* to Done only in a state where the status of every selected fork is
\* terminal, and once every job of the batch has sent its terminal status
\* and the events are drained the consumer is no longer in Syncing mode.
\* Taken in the case most favourable to the claim: no fork has been removed
\* from the list.
C27_ConsumerDeclaresDone ==
    /\ [][(app.mode = "Syncing" /\ app'.mode = "Done") => is_all_done(app')]_vars
    /\ []((Len(app.forks) = NumForks /\ BatchesOverAndDrained) => app.mode # "Syncing")

\* ------------------------------------------------------------------ C28
\* this step is the consumer applying the StatusUpdate at the head of the
\* channel, whose index names a row
AppliesStatusUpdate ==
    /\ Receivable({"StatusUpdate"}) /\ Head(chan).idx < Len(app.statuses)
    /\ chan' = Tail(chan)

\* C28: applying StatusUpdate(idx, s) stores s at index idx and leaves the
\* status of every other index, the fork list and the selection as they
\* were; applying the same update once more changes nothing.
C28_StatusUpdateOverwritesOneRow ==
    [][AppliesStatusUpdate =>
          LET e == Head(chan)
          IN /\ Len(app'.statuses) = Len(app.statuses)
             /\ \A i \in 1..Len(app.statuses) :
                  app'.statuses[i] = IF i = e.idx + 1 THEN e.st ELSE app.statuses[i]
             /\ app'.forks = app.forks
             /\ app'.selected = app.selected
             /\ OnStatusUpdate(app', e.idx, e.st) = app']_vars

\* the update about to be applied is the one applied last (Restoring, sent
\* twice), on a list with another selected row
C28_Witness ==
    /\ Receivable({"StatusUpdate"}) /\ Head(chan).idx < Len(app.statuses)
    /\ Head(chan).st = Restoring
    /\ app.statuses[Head(chan).idx + 1] = Restoring
    /\ \E i \in 1..Len(app.selected) : i # Head(chan).idx + 1 /\ app.selected[i]

\* ------------------------------------------------------------------ C29
StructuralEvents == {"ForkArchived", "ForkDeleted", "ForksRefreshed"}

\* this step is the consumer applying the removal at the head of the channel
AppliesRemoval ==
    /\ Receivable({"ForkArchived", "ForkDeleted"})
    /\ chan' = Tail(chan)

\* new is old without its i-th entry
RemovedAt(old, new, i) ==
    /\ Len(new) = Len(old) - 1
    /\ \A j \in 1..Len(new) : new[j] = IF j < i THEN old[j] ELSE old[j + 1]

\* C29: the length of the fork list changes only in a step that applies a
\* structural event, and applying a removal of index idx takes exactly the
\* entry idx out of forks, statuses and selected when idx names a row, once,
\* and changes none of the three when it does not.
C29_OnlyStructuralEventsReshape ==
    [][/\ Len(app'.forks) # Len(app.forks) =>
             Receivable(StructuralEvents) /\ chan' = Tail(chan)
       /\ AppliesRemoval =>
             LET i == Head(chan).idx + 1
             IN IF i <= Len(app.forks)
                THEN /\ RemovedAt(app.forks, app'.forks, i)
                     /\ RemovedAt(app.statuses, app'.statuses, i)
                     /\ RemovedAt(app.selected, app'.selected, i)
                ELSE /\ app'.forks = app.forks
                     /\ app'.statuses = app.statuses
                     /\ app'.selected = app.selected]_vars

\* a removal whose index is past the end is about to be applied to a list
\* that has lost a row and whose first row is selected and has a status
C29_Witness ==
    /\ Receivable({"ForkArchived", "ForkDeleted"})
    /\ Head(chan).idx >= Len(app.forks)
    /\ Len(app.forks) = NumForks - 1 /\ Len(app.forks) > 0
    /\ app.selected[1] /\ app.statuses[1] # Pending

\* ------------------------------------------------------------------ C30
\* the row the next key press acts on
CurrentRow == app.forks[current_fork_index(app) + 1]

\* C30: what a dispatch decision reads as "is cloned" is what the disk holds
\* at that moment: when the consumer is ready to take c on a row, the row's
\* is_cloned equals the presence of the fork's local path.  Taken in the case
\* most favourable to the claim: every worker dispatched so far has finished
\* and all its events have been applied.
C30_ClonedFlagIsLive ==
    (/\ InMode({"Selecting"}) /\ current_fork_index(app) # NoIdx
     /\ \A w \in WorkerIds : ~Unfinished(w))
        => CurrentRow.is_cloned = disk[CurrentRow.id].exists

\* ------------------------------------------------------------------ C31
\* the run saved a stash entry of its own
StashCreated(w) ==
    \E i \in 1..Len(cmds[w]) : cmds[w][i].c = "git_stash_push" /\ cmds[w][i].res = "ok"

\* C31: a real sync of a cloned fork whose gh repo sync succeeded ends with
\* Synced whatever the restore commands returned; the checkout of the
\* original branch is attempted if the run had checked out the default
\* branch, the stash pop if the run had created a stash, the checkout before
\* the pop, and the pop is the last command of the run.
C31_RestoreIsBestEffort ==
    \A w \in WorkerIds :
        (RemoteSyncOk(w) /\ workers[w].pc = "done") =>
            /\ Last(log[w]).st.k = "Synced"
            /\ RanOk(w, {"git_checkout_default"}) => Ran(w, {"git_checkout_original"})
            /\ StashCreated(w) => Ran(w, {"git_stash_pop"})
            /\ (Ran(w, {"git_checkout_original"}) /\ Ran(w, {"git_stash_pop"})) =>
                   /\ CmdAt(w, "git_checkout_original") + 1 = CmdAt(w, "git_stash_pop")
                   /\ CmdAt(w, "git_stash_pop") = Len(cmds[w])
            /\ \A i \in 1..Len(log[w]) : KindOf(log[w][i]) # "Failed"

\* both restore commands failed and the run still ended Synced
C31_Witness ==
    \E w \in WorkerIds :
        /\ RemoteSyncOk(w) /\ workers[w].pc = "done"
        /\ StashCreated(w)
        /\ CmdFailed(w, "git_checkout_original") /\ CmdFailed(w, "git_stash_pop")
        /\ Last(log[w]).st.k = "Synced"

\* ------------------------------------------------------------------ C32
\* a reason fit for one cell of the status table
ShortOneLine(r) == Len(r) <= TruncLimit /\ ~Contains(r, "\n")

\* C32: the reason of every Failed status any operation sends is a single
\* line of at most 30 characters: every failure path passes its message
\* through truncate_error or sends a short fixed text.
C32_FailedReasonsBounded ==
    \A w \in WorkerIds : \A i \in 1..Len(log[w]) :
        KindOf(log[w][i]) = "Failed" => ShortOneLine(log[w][i].st.r)

\* the rows of the table that belong to one owner/name pair
RowsOf(table, o, n) == {r \in table : r.owner = o /\ r.name = n}

\* the fork the last INSERT of a list wrote for the pair of its i-th fork
LastSaved(forks, i) ==
    LET same == {j \in 1..Len(forks) : /\ forks[j].owner = forks[i].owner
                                       /\ forks[j].name = forks[i].name}
    IN  forks[CHOOSE j \in same : \A l \in same : l <= j]

\* C33: the cache has upsert semantics keyed by owner/name. After any sequence
\* of save_forks / save_fork / remove_fork calls the table holds at most one
\* row per owner/name pair; every fork a save wrote is returned by load_forks
\* with the same owner and name (and the content last saved for that pair);
\* saving the same forks once more, at any time, leaves what load_forks
\* returns unchanged; a removed pair is no longer loaded.
C33_CacheUpserts ==
    /\ \A o \in Owners, n \in RepoNames : Cardinality(RowsOf(cache.table, o, n)) <= 1
    /\ cache.call \in {"save_forks", "save_fork"} =>
         /\ \A i \in 1..Len(cache.forks) :
              /\ \E g \in load_forks(cache.table) :
                   g.owner = cache.forks[i].owner /\ g.name = cache.forks[i].name
              /\ LastSaved(cache.forks, i) \in load_forks(cache.table)
         /\ \A t \in Times :
              load_forks(save_forks(cache.table, cache.forks, t)) = load_forks(cache.table)
         /\ save_forks(cache.table, cache.forks, cache.now) = cache.table
    /\ cache.call = "remove_fork" =>
         RowsOf(cache.table, cache.forks[1].owner, cache.forks[1].name) = {}

\* a save of two forks with the same owner and name and different content,
\* into a table that holds other forks too
C33_Witness ==
    /\ cache.call = "save_forks"
    /\ Len(cache.forks) = 2
    /\ cache.forks[1].owner = cache.forks[2].owner
    /\ cache.forks[1].name = cache.forks[2].name
    /\ cache.forks[1].description # cache.forks[2].description
    /\ Cardinality(cache.table) >= 3
    /\ \E r \in cache.table : r.fetched_at # cache.now

\* how many times worker w ran the command with one of the results
Times_Ran(w, name, results) ==
    Cardinality({i \in 1..Len(cmds[w]) : cmds[w][i].c = name /\ cmds[w][i].res \in results})

\* C34: in every finished run of sync_single_fork the number of git stash pop
\* attempts equals the number of stash entries the run created (0 or 1): a
\* stash is popped only if this run created it, and every stash the run
\* created gets exactly one pop attempt before the terminal status.
C34_PopsMatchCreatedStashes ==
    \A w \in WorkerIds :
        (Over(w, "sync") /\ ~workers[w].dry) =>
            /\ Times_Ran(w, "git_stash_push", {"ok"}) <= 1
            /\ Times_Ran(w, "git_stash_pop", {"ok", "fail"}) = Times_Ran(w, "git_stash_push", {"ok"})

\* the same count taken over the stash pushes that exited 0, whether or not
\* they saved anything
PopsMatchZeroExits ==
    \A w \in WorkerIds :
        (Over(w, "sync") /\ ~workers[w].dry) =>
            /\ Times_Ran(w, "git_stash_push", {"ok", "nothing"}) <= 1
            /\ Times_Ran(w, "git_stash_pop", {"ok", "fail"})
                   = Times_Ran(w, "git_stash_push", {"ok", "nothing"})
            /\ Ran(w, {"git_stash_pop"}) =>
                   /\ CmdAt(w, "git_stash_push") < CmdAt(w, "git_stash_pop")
                   /\ IsTerminalEvent(Last(log[w]))

\* the positions of worker w's log that hold a status of the kind, or an
\* event of the type
KindAt(w, k) == {i \in 1..Len(log[w]) : KindOf(log[w][i]) = k}

OpKinds == {"clone", "archive", "delete"}

\* C35: for clone, archive and delete a structural event is sent only after
\* the gh command succeeded or in a dry run, and a finished operation has sent
\* one exactly in those two cases; every failing path ends with exactly one
\* Failed status and no structural event, except the missing-scope delete,
\* which sends Pending and then one ActionableError and no Failed; a clone
\* whose create_dir_all failed never runs gh repo clone.
C35_StructuralIffSucceeded ==
    \A w \in WorkerIds :
        workers[w].kind \in OpKinds =>
            /\ StructuralsAt(w) # {} =>
                 /\ workers[w].dry \/ RanOk(w, {GhCommandOf(workers[w].kind)})
                 /\ Cardinality(StructuralsAt(w)) = 1
                 /\ KindOf(Last(log[w])) = StructuralOf(workers[w].kind)
                 /\ KindAt(w, "Failed") = {} /\ KindAt(w, "ActionableError") = {}
            /\ workers[w].pc = "done" =>
                 /\ (workers[w].dry \/ RanOk(w, {GhCommandOf(workers[w].kind)}))
                        => StructuralsAt(w) # {}
                 /\ (~workers[w].dry /\ ~RanOk(w, {GhCommandOf(workers[w].kind)})) =>
                        IF ScopeFailure(w)
                        THEN /\ KindAt(w, "Failed") = {}
                             /\ KindAt(w, "Pending") = {Len(log[w]) - 1}
                             /\ KindAt(w, "ActionableError") = {Len(log[w])}
                        ELSE /\ KindAt(w, "Failed") = {Len(log[w])}
                             /\ KindAt(w, "ActionableError") = {}
            /\ CmdFailed(w, "create_dir_all") => ~Ran(w, {"gh_repo_clone"})

\* a real clone stopped at a failed create_dir_all, and nothing else run
C35_Witness ==
    \E w \in WorkerIds :
        /\ Over(w, "clone") /\ ~workers[w].dry
        /\ CmdFailed(w, "create_dir_all")
        /\ Len(cmds[w]) = 1
        /\ KindAt(w, "Failed") = {Len(log[w])}
        /\ StructuralsAt(w) = {}

\* C36: after App::new and any sequence of App operations forks, statuses and
\* selected have the same length, and every entry of search_results is an
\* index of forks (none occurs twice, and the cursor, when set, is an index
\* of search_results).
C36_AppShape ==
    /\ Len(app.statuses) = Len(app.forks)
    /\ Len(app.selected) = Len(app.forks)
    /\ \A i \in 1..Len(app.search_results) :
         /\ app.search_results[i] >= 0
         /\ app.search_results[i] < Len(app.forks)
         /\ \A j \in 1..Len(app.search_results) :
              app.search_results[i] = app.search_results[j] => i = j
    /\ app.cursor # NoIdx => app.cursor >= 0 /\ app.cursor < Len(app.search_results)

\* a row was removed while a query had narrowed the list, and a row is left
\* that the query still matches
C36_Witness ==
    /\ Len(app.forks) < NumForks
    /\ Len(app.search_query) > 0
    /\ Len(app.search_results) > 0
    /\ \E i \in 1..Len(app.selected) : app.selected[i]

\* the events of worker w that are in the channel, oldest first
ChanOf(w) == SelectSeq(chan, LAMBDA e : e.w = w)

\* what is in the channel from w is the end of what w has sent, in the order
\* sent: the consumer has received the events before it and none after it
PendingIsTail(w) ==
    LET n == Len(ChanOf(w))
    IN /\ n <= Len(log[w])
       /\ ChanOf(w) = SubSeq(log[w], Len(log[w]) - n + 1, Len(log[w]))

\* the channel changes only by the consumer taking its oldest event or by one
\* worker appending the events it has just sent
TakesHeadOrAppends ==
    chan' # chan =>
        \/ chan # <<>> /\ chan' = Tail(chan) /\ log' = log
        \/ \E w \in WorkerIds :
             /\ Len(log'[w]) > Len(log[w])
             /\ chan' = chan \o SubSeq(log'[w], Len(log[w]) + 1, Len(log'[w]))
             /\ \A v \in WorkerIds \ {w} : log'[v] = log[v]

SkippedUnpushed(w) ==
    \E i \in 1..Len(log[w]) : log[w][i].st = Skipped("unpushed commits")

\* the sync of a cloned fork has run its unpushed-commits query
Queried(w) ==
    /\ workers[w].kind = "sync" /\ ~workers[w].dry
    /\ Ran(w, {"git_log_unpushed"})

\* the command the run goes on with when it is not skipped
StepAfterQuery(w) ==
    IF workers[w].pre.dirty /\ RanOk(w, {"git_status"}) THEN "git_stash_push"
    ELSE IF workers[w].pre.branch # DefaultBranch THEN "git_checkout_default"
    ELSE "gh_repo_sync"

\* C38: Skipped("unpushed commits") is sent if and only if the query
\* git log origin/<default>..HEAD ran and printed something; when the query
\* could not be started, or failed and printed nothing, or found nothing, the
\* run is not skipped and goes on to its next step: the stash push of a dirty
\* clone, else the checkout of the default branch, else gh repo sync.
C38_SkippedIffOutput ==
    \A w \in WorkerIds :
        /\ SkippedUnpushed(w) <=> (Queried(w) /\ UnpushedFound(w))
        /\ (Queried(w) /\ ~UnpushedFound(w) /\ workers[w].pc = "done") =>
               /\ CmdAt(w, "git_log_unpushed") < Len(cmds[w])
               /\ cmds[w][CmdAt(w, "git_log_unpushed") + 1].c = StepAfterQuery(w)
               /\ \A i \in 1..Len(log[w]) : KindOf(log[w][i]) # "Skipped"

\* a clone with unpushed commits whose query failed: the run was not skipped
\* and went through to the end
C38_Witness ==
    \E w \in WorkerIds :
        /\ Queried(w) /\ workers[w].pc = "done"
        /\ workers[w].pre.ahead
        /\ CmdFailed(w, "git_log_unpushed")
        /\ ~SkippedUnpushed(w)
        /\ RanOk(w, {"gh_repo_sync"})

\* the record of the gh repo sync worker w ran
SyncCmd(w) == cmds[w][CmdAt(w, "gh_repo_sync")]

\* gh repo sync exited non-zero with the text or the output that
\* sync_fork_remote takes for 'nothing to do'
LooksUpToDate(c) ==
    c.res = "fail" /\ (Contains(c.err, "already up-to-date") \/ ~c.stdout_empty)

\* C39: a finished real sync whose gh repo sync did not succeed. Without a
\* local clone: Synced(0) when the command exited non-zero and its stderr
\* contains "already up-to-date" or its stdout is not empty, Failed
\* otherwise. With a local clone: whatever the command wrote, no pull, fetch
\* or reset is run, the rollback is (the original branch checked out if the
\* default branch had been, the stash popped if the stash push had exited 0)
\* and the run ends with Failed("sync failed").
C39_UpToDateOnlyRemote ==
    \A w \in WorkerIds :
        (Over(w, "sync") /\ ~workers[w].dry /\ CmdFailed(w, "gh_repo_sync")) =>
            IF ~workers[w].pre.exists
            THEN /\ LooksUpToDate(SyncCmd(w)) => Last(log[w]).st = Synced(0)
                 /\ ~LooksUpToDate(SyncCmd(w)) => KindOf(Last(log[w])) = "Failed"
                 /\ TerminalsAt(w) = {Len(log[w])}
            ELSE /\ Last(log[w]).st = Failed("sync failed")
                 /\ TerminalsAt(w) = {Len(log[w])}
                 /\ ~Ran(w, {"git_pull", "git_fetch", "git_reset_hard"})
                 /\ RanOk(w, {"git_checkout_default"}) => Ran(w, {"git_checkout_original"})
                 /\ Times_Ran(w, "git_stash_push", {"ok", "nothing"}) > 0
                        => Ran(w, {"git_stash_pop"})

\* gh repo sync of a cloned fork exited non-zero saying it was already
\* up-to-date, after a stash push and a checkout: rolled back and Failed
C39_Witness ==
    \E w \in WorkerIds :
        /\ Over(w, "sync") /\ ~workers[w].dry /\ workers[w].pre.exists
        /\ CmdFailed(w, "gh_repo_sync")
        /\ LooksUpToDate(SyncCmd(w)) /\ Contains(SyncCmd(w).err, "already up-to-date")
        /\ Ran(w, {"git_checkout_original"}) /\ Ran(w, {"git_stash_pop"})
        /\ Last(log[w]).st = Failed("sync failed")

====
